---- MODULE Spec2Model ----
(***************************************************************************)
(* StellarLend lending contract (contracts/hello-world/src/lib.rs).        *)
(*                                                                         *)
(* The contract keeps everything in instance storage; every public         *)
(* function is one atomic step.  A function that returns Err after having  *)
(* written to storage leaves those writes in place: the functions are      *)
(* plain Rust functions over env.storage() and nothing in lib.rs undoes a  *)
(* write.                                                                  *)
(*                                                                         *)
(* Amounts are i128 in the source.  TLC integers are 32 bit, so every      *)
(* product that is divided by the 1e8 scale is computed by MulDiv, which   *)
(* yields exactly the quotient the i128 expression yields without forming  *)
(* the product.                                                            *)
(***************************************************************************)
EXTENDS Integers, Sequences, FiniteSets, TLC

\* ------------------------------------------------------------------------
\* Bounds of the model
\* ------------------------------------------------------------------------

\* ledger timestamps range over 0..MaxTime
MaxTime == 1

\* a position's collateral and debt are kept at or below this
MaxAmount == 1000

\* the suspicious-activity counter is kept at or below this
MaxSuspicious == 1

\* total fees collected are kept at or below this
MaxFees == 3

\* the admin Vec is kept at or below this length
MaxAdmins == 3

\* at most this many liquidations succeed
MaxLiquidations == 1

\* where the ledger time advances by years, it stops after this many
MaxYears == 1

\* configuration versions create_configuration and update_configuration
\* may hand out, proposals of each kind, and backups
MaxVersions == 1
MaxProposals == 1
MaxBackups == 1

\* ------------------------------------------------------------------------
\* Program constants
\* ------------------------------------------------------------------------

\* 1e8 fixed-point scale
SCALE == 100000000

\* seconds_per_year in calculate_interest
SECONDS_PER_YEAR == 31536000

\* stands for i128::MAX, the ratio of a position without debt; it is only
\* ever compared with a minimum ratio
I128_MAX == 2147483647

\* base_price of the simulated oracle
BASE_PRICE == 200000000

\* default fallback price (1.5)
DEFAULT_FALLBACK_PRICE == 150000000

\* default maximum price deviation, in percent
DEFAULT_MAX_DEVIATION == 50

\* default heartbeat
DEFAULT_HEARTBEAT == 3600

\* default minimum collateral ratio, in percent
DEFAULT_MIN_RATIO == 150

\* ------------------------------------------------------------------------
\* Addresses
\* ------------------------------------------------------------------------

Admin == "admin"

Users == {"u1", "u2"}

\* the empty string is what String::is_empty() rejects
Addresses == Users \cup {""}

Callers == {Admin, "u1"}

\* the account that borrows when only one does, and the one that liquidates
Borrower == "u1"

Liquidator == "u2"

\* a string that is no address: Address::from_string panics on it
Malformed == "bad"

\* ------------------------------------------------------------------------
\* Integer arithmetic of the source
\* ------------------------------------------------------------------------

Abs(x) == IF x < 0 THEN -x ELSE x

Sgn(x) == IF x < 0 THEN -1 ELSE 1

Min(a, b) == IF a < b THEN a ELSE b

Max(a, b) == IF a > b THEN a ELSE b

\* Rust's integer division truncates toward zero
Div(a, b) == Sgn(a) * Sgn(b) * (Abs(a) \div Abs(b))

\* <<(a * b) \div c, (a * b) % c>> for a, b >= 0 and 0 < c < 2^30: directly
\* when the product fits 31 bits, else by doubling over the bits of b, so
\* that no intermediate exceeds 2 * c + a
RECURSIVE QuotRem(_, _, _)
QuotRem(a, b, c) ==
    IF b = 0 THEN <<0, 0>>
    ELSE IF a <= 2147483647 \div b THEN <<(a * b) \div c, (a * b) % c>>
    ELSE LET h  == QuotRem(a, b \div 2, c)
             r2 == 2 * h[2] + (IF b % 2 = 1 THEN a % c ELSE 0)
             q2 == 2 * h[1] + (IF b % 2 = 1 THEN a \div c ELSE 0)
         IN  <<q2 + (r2 \div c), r2 % c>>

\* (a * b) / c as the i128 expression computes it (truncating); the
\* doubling runs over the smaller factor
MulDiv(a, b, c) ==
    Sgn(a) * Sgn(b) * Sgn(c)
        * QuotRem(Max(Abs(a), Abs(b)), Min(Abs(a), Abs(b)), Abs(c))[1]

\* ------------------------------------------------------------------------
\* Storage
\* ------------------------------------------------------------------------

VARIABLES
    now,                \* env.ledger().timestamp()
    reentrancy,         \* ReentrancyGuard flag
    stored,             \* users that have a stored Position
    positions,          \* the stored Position of each user in stored
    ir_config,          \* InterestRateConfig
    ir_state,           \* InterestRateState
    risk_config,        \* RiskConfig
    reserve,            \* ReserveData
    metrics,            \* RevenueMetrics
    oracle_set,         \* whether the oracle address is stored
    oracle_price,       \* OracleData price ("oracle_p"), 0 when unset
    oracle_time,        \* OracleData last update ("oracle_t")
    max_deviation,      \* OracleConfig maximum deviation
    fallback_price,     \* OracleConfig fallback price
    heartbeat,          \* OracleConfig heartbeat
    min_ratio,          \* ProtocolConfig minimum collateral ratio
    frozen,             \* users whose FrozenAccounts flag is true
    suspicious,         \* SecurityMonitor counter (one key for all users)
    admins,             \* the Vec get_admin_set returns
    version_counter,    \* ConfigurationStorage "ver_cnt"
    current_config,     \* ConfigurationStorage "curr_cfg": <<>> or <<config>>
    config_history,     \* ConfigurationStorage "cfg_hist"
    backups,            \* the ConfigurationBackup under each backup_id
    proposals,          \* the ConfigurationProposal under each proposal_id
    asset_proposals,    \* the AssetProposal under each proposal id
    assets,             \* the AssetInfo under each storage key: <<>> or <<info>>
    asset_registry,     \* AssetRegistry
    user_activity,      \* the UserActivity under each storage key: <<>> or <<activity>>
    emergency_withdrawn, \* history: sum of successful emergency withdrawals
    liquidations,       \* history: number of successful liquidations
    touched,            \* history: when each position was saved last
    called,             \* the function called last
    returned,           \* what the last query returned inside its Ok
    result              \* what the last call returned

\* the storage of the configuration manager
configuration ==
    <<version_counter, current_config, config_history, backups, proposals>>

\* the storage of the asset listing
listing == <<asset_proposals, assets, asset_registry>>

vars == <<now, configuration, listing, user_activity, reentrancy, stored, positions, ir_config, ir_state,
          risk_config, reserve, metrics, oracle_set, oracle_price,
          oracle_time, max_deviation, fallback_price, heartbeat, min_ratio,
          frozen, suspicious, admins, emergency_withdrawn, liquidations, touched,
          called, returned, result>>

\* everything the contract keeps in storage
persisted == <<reentrancy, stored, positions, ir_config, ir_state,
               risk_config, reserve, metrics, oracle_set, oracle_price,
               oracle_time, max_deviation, fallback_price, heartbeat,
               min_ratio, frozen, suspicious, admins, configuration, listing, user_activity>>

\* a RiskConfig read with every pause switch off
risk_config_never_paused ==
    [risk_config EXCEPT !.pause_borrow = FALSE, !.pause_deposit = FALSE,
                        !.pause_withdraw = FALSE, !.pause_liquidate = FALSE]

\* RiskConfigStorage::get, as the lending operations read it for the pause
\* switches
RiskConfigStorage_get == risk_config

\* Position::new(user, 0, 0)
NewPosition ==
    [collateral |-> 0, debt |-> 0, borrow_interest |-> 0,
     supply_interest |-> 0, last_accrual_time |-> 0]

\* StateHelper::get_position(..).unwrap_or(Position::new(..))
PositionOrNew(u) == IF u \in stored THEN positions[u] ELSE NewPosition

InterestRateConfigDefault ==
    [base_rate |-> 2000000, kink_utilization |-> 80000000,
     multiplier |-> 10000000, reserve_factor |-> 10000000,
     rate_ceiling |-> 50000000, rate_floor |-> 100000, last_update |-> 0]

InterestRateStateInitial ==
    [current_borrow_rate |-> 0, current_supply_rate |-> 0,
     utilization_rate |-> 0, total_borrowed |-> 0, total_supplied |-> 0,
     last_accrual_time |-> 0]

RiskConfigDefault ==
    [close_factor |-> 50000000, liquidation_incentive |-> 10000000,
     pause_borrow |-> FALSE, pause_deposit |-> FALSE,
     pause_withdraw |-> FALSE, pause_liquidate |-> FALSE, last_update |-> 0]

ReserveDataDefault ==
    [total_fees_collected |-> 0, total_fees_distributed |-> 0,
     current_reserves |-> 0, treasury_address |-> Admin,
     last_distribution_time |-> 0, distribution_frequency |-> 86400]

RevenueMetricsDefault ==
    [total_borrow_fees |-> 0, total_supply_fees |-> 0]

\* AssetInfo::new, without the oracle address and the default rate and
\* risk records it embeds
AssetInfo_new(symbol, decimals, min_collateral_ratio) ==
    [symbol |-> symbol, decimals |-> decimals,
     min_collateral_ratio |-> min_collateral_ratio,
     deposit_enabled |-> TRUE, borrow_enabled |-> TRUE, last_update |-> 0]

AssetRegistry_new(default_asset) ==
    [supported_assets |-> <<default_asset>>, default_asset |-> default_asset,
     last_update |-> 0]

\* the five storage keys AssetStorage has for AssetInfo records
AssetKeys == {"asset_xlm", "asset_usdc", "asset_btc", "asset_eth", "asset_def"}

\* AssetStorage::asset_info_key
asset_info_key(asset) ==
    IF asset = "XLM" THEN "asset_xlm"
    ELSE IF asset = "USDC" THEN "asset_usdc"
    ELSE IF asset = "BTC" THEN "asset_btc"
    ELSE IF asset = "ETH" THEN "asset_eth"
    ELSE "asset_def"

\* the asset records after Contract::initialize
InitialAssets ==
    [k \in AssetKeys |->
        IF k = "asset_xlm" THEN <<AssetInfo_new("XLM", 7, 150)>> ELSE <<>>]

\* ------------------------------------------------------------------------
\* InterestRateManager
\* ------------------------------------------------------------------------

calculate_utilization(total_borrowed, total_supplied) ==
    IF total_supplied = 0 THEN 0
    ELSE MulDiv(total_borrowed, SCALE, total_supplied)

\* the rate without the rate limits
calculate_borrow_rate_unlimited(utilization, config) ==
    IF utilization > config.kink_utilization
    THEN config.base_rate + MulDiv(utilization - config.kink_utilization,
                                   config.multiplier, SCALE)
    ELSE config.base_rate

calculate_borrow_rate(utilization, config) ==
    LET excess_rate ==
            IF utilization > config.kink_utilization
            THEN MulDiv(utilization - config.kink_utilization,
                        config.multiplier, SCALE)
            ELSE 0
        rate == config.base_rate + excess_rate
    IN  Min(Max(rate, config.rate_floor), config.rate_ceiling)

\* a supply rate that does not scale with the utilization
calculate_supply_rate_flat(borrow_rate, utilization, reserve_factor) ==
    borrow_rate - MulDiv(borrow_rate, reserve_factor, SCALE)

calculate_supply_rate(borrow_rate, utilization, reserve_factor) ==
    LET effective_rate == MulDiv(borrow_rate, utilization, SCALE)
        protocol_fee   == MulDiv(effective_rate, reserve_factor, SCALE)
    IN  effective_rate - protocol_fee

\* (principal * rate * time_delta) / (seconds_per_year * 1e8) for
\* non-negative arguments: with principal * rate = q1 * 1e8 + r1 and
\* q1 * time_delta = q2 * spy + r2 the quotient is
\* q2 + (r2 + (r1 * time_delta) / 1e8) / spy
calculate_interest(principal, rate, time_delta) ==
    IF principal = 0 \/ rate = 0 \/ time_delta = 0 THEN 0
    ELSE LET pr == QuotRem(principal, rate, SCALE)
             qt == QuotRem(pr[1], time_delta, SECONDS_PER_YEAR)
             m  == QuotRem(pr[2], time_delta, SCALE)[1]
         IN  qt[1] + ((qt[2] + m) \div SECONDS_PER_YEAR)

\* rates that add up from call to call
update_rates_accumulating(state, config, t) ==
    LET utilization == calculate_utilization(state.total_borrowed,
                                             state.total_supplied)
        borrow_rate == calculate_borrow_rate(utilization, config)
        supply_rate == calculate_supply_rate(borrow_rate, utilization,
                                             config.reserve_factor)
    IN  [state EXCEPT !.utilization_rate = utilization,
                      !.current_borrow_rate = @ + borrow_rate,
                      !.current_supply_rate = @ + supply_rate,
                      !.last_accrual_time = t]

update_rates(state, config, t) ==
    LET utilization == calculate_utilization(state.total_borrowed,
                                             state.total_supplied)
        borrow_rate == calculate_borrow_rate(utilization, config)
        supply_rate == calculate_supply_rate(borrow_rate, utilization,
                                             config.reserve_factor)
    IN  [state EXCEPT !.utilization_rate = utilization,
                      !.current_borrow_rate = borrow_rate,
                      !.current_supply_rate = supply_rate,
                      !.last_accrual_time = t]

accrue_interest_for_position(position, borrow_rate, supply_rate, t) ==
    LET time_delta == IF position.last_accrual_time = 0 THEN 0
                      ELSE t - position.last_accrual_time
        bi == IF position.debt > 0
              THEN calculate_interest(position.debt, borrow_rate, time_delta)
              ELSE 0
        si == IF position.collateral > 0
              THEN calculate_interest(position.collateral, supply_rate,
                                      time_delta)
              ELSE 0
    IN  IF time_delta > 0
        THEN [position EXCEPT !.borrow_interest = @ + bi,
                              !.supply_interest = @ + si,
                              !.last_accrual_time = t]
        ELSE position

\* <<borrow_fee, supply_fee>>
collect_fees_from_interest(borrow_interest, supply_interest, reserve_factor) ==
    LET borrow_fee == MulDiv(borrow_interest, reserve_factor, SCALE)
        total_supply_interest_without_fee ==
            MulDiv(supply_interest, SCALE, SCALE - reserve_factor)
    IN  <<borrow_fee, total_supply_interest_without_fee - supply_interest>>

\* InterestRateStorage::update_state: the state it saves and returns
update_state == update_rates(ir_state, ir_config, now)

\* ------------------------------------------------------------------------
\* RealPriceOracle
\* ------------------------------------------------------------------------

\* the simulated oracle reading at time t
simulated_price(t) == BASE_PRICE + (t % 1000) * 10000

\* a validation that accepts every price
validate_price_always(price) == TRUE

validate_price(price) ==
    LET last_price == oracle_price
        deviation  == IF last_price > price
                      THEN MulDiv(last_price - price, 100, last_price)
                      ELSE MulDiv(price - last_price, 100, last_price)
    IN  IF last_price = 0 THEN TRUE ELSE deviation <= max_deviation

\* whether get_price stores the reading
price_accepted == oracle_set /\ validate_price(simulated_price(now))

\* what get_price returns
get_price == IF price_accepted THEN simulated_price(now) ELSE fallback_price

\* OracleData after a call of get_price
price_after_get == IF price_accepted THEN simulated_price(now)
                   ELSE oracle_price

time_after_get == IF price_accepted THEN now ELSE oracle_time

\* a ratio of 0 for a position without debt
zero_debt_ratio_zero(position, price) ==
    IF position.debt = 0 THEN 0
    ELSE Div(MulDiv(position.collateral * 100, price, SCALE), position.debt)

\* StateHelper::dynamic_collateral_ratio at the price get_price returns
dynamic_collateral_ratio(position, price) ==
    IF position.debt = 0 THEN I128_MAX
    ELSE Div(MulDiv(position.collateral * 100, price, SCALE), position.debt)

\* the oracle storage after dynamic_collateral_ratio: a position without
\* debt returns before get_price is called
ratio_price_read(position) ==
    IF position.debt = 0 THEN UNCHANGED <<oracle_price, oracle_time>>
    ELSE /\ oracle_price' = price_after_get
         /\ oracle_time' = time_after_get

\* ------------------------------------------------------------------------
\* Activity tracking
\* ------------------------------------------------------------------------

\* the most activities the tracked record counts
MaxActivities == 2

UserActivity_new ==
    [total_deposits |-> 0, total_withdrawals |-> 0, total_borrows |-> 0,
     total_repayments |-> 0, last_activity |-> 0, activity_count |-> 0]

\* ActivityStorage::user_activity_key: the address is converted to a string
\* that is not used, and the key is the same for every user
user_activity_key(user) == "user_activity"

ActivityKeys == {user_activity_key(u) : u \in Users}

\* ActivityStorage::get_user_activity(..).unwrap_or_else(UserActivity::new)
get_user_activity(user) ==
    IF user_activity[user_activity_key(user)] = <<>>
    THEN UserActivity_new
    ELSE user_activity[user_activity_key(user)][1]

record_deposit(activity, amount, timestamp) ==
    [activity EXCEPT !.total_deposits = @ + amount,
                     !.last_activity = timestamp,
                     !.activity_count = @ + 1]

record_withdrawal(activity, amount, timestamp) ==
    [activity EXCEPT !.total_withdrawals = @ + amount,
                     !.last_activity = timestamp,
                     !.activity_count = @ + 1]

record_borrow(activity, amount, timestamp) ==
    [activity EXCEPT !.total_borrows = @ + amount,
                     !.last_activity = timestamp,
                     !.activity_count = @ + 1]

record_repayment(activity, amount, timestamp) ==
    [activity EXCEPT !.total_repayments = @ + amount,
                     !.last_activity = timestamp,
                     !.activity_count = @ + 1]

TrackedActions == {"deposit", "withdrawal", "borrow", "repayment"}

recorded(activity, action, amount, timestamp) ==
    IF action = "deposit" THEN record_deposit(activity, amount, timestamp)
    ELSE IF action = "withdrawal" THEN record_withdrawal(activity, amount, timestamp)
    ELSE IF action = "borrow" THEN record_borrow(activity, amount, timestamp)
    ELSE record_repayment(activity, amount, timestamp)

track_user_activity(user, action, amount) ==
    /\ called' = "track_user_activity"
    /\ UNCHANGED <<now, configuration, listing, reentrancy, stored, positions,
                   ir_config, ir_state, risk_config, reserve, metrics,
                   oracle_set, oracle_price, oracle_time, max_deviation,
                   fallback_price, heartbeat, min_ratio, frozen, suspicious,
                   admins, emergency_withdrawn, liquidations, touched,
                   returned>>
    /\ IF action \in TrackedActions
       THEN /\ user_activity' =
                  [user_activity EXCEPT ![user_activity_key(user)] =
                      <<recorded(get_user_activity(user), action, amount, now)>>]
            /\ result' = "Ok"
       ELSE /\ result' = "Unknown"
            /\ UNCHANGED user_activity

\* ------------------------------------------------------------------------
\* Lending operations
\* ------------------------------------------------------------------------

\* storage no lending operation writes
LendingFrame ==
    UNCHANGED <<now, configuration, listing, user_activity, admins, returned, ir_config, risk_config, oracle_set, max_deviation,
                fallback_price, heartbeat, min_ratio, frozen,
                emergency_withdrawn>>

\* an early return before anything was written; the guard's exit still
\* stores false
Reject(err) ==
    /\ result' = err
    /\ reentrancy' = FALSE
    /\ UNCHANGED <<stored, positions, touched, ir_state, reserve, metrics,
                   oracle_price, oracle_time, suspicious>>

\* SecurityMonitor::record_suspicious followed by the early return
RejectSuspicious(err) ==
    /\ suspicious < MaxSuspicious
    /\ suspicious' = suspicious + 1
    /\ result' = err
    /\ reentrancy' = FALSE
    /\ UNCHANGED <<stored, positions, touched, ir_state, reserve, metrics,
                   oracle_price, oracle_time>>

\* a panic inside the closure of a guarded operation, before anything but
\* the flag was written: ReentrancyGuard::exit is an ordinary call after
\* the closure and is skipped, so the flag stays set where the write of
\* enter is kept and is clear where the host reverts the call
Unwind ==
    /\ result' = "Panic"
    /\ reentrancy' \in BOOLEAN
    /\ UNCHANGED <<stored, positions, touched, ir_state, reserve, metrics,
                   oracle_price, oracle_time, suspicious>>

\* ReentrancyGuard::enter finds the flag set
RejectReentrant ==
    /\ result' = "Unknown"
    /\ UNCHANGED <<reentrancy, stored, positions, touched, ir_state, reserve,
                   metrics, oracle_price, oracle_time, suspicious>>

\* ReserveData after a fee was collected from interest
reserve_with_fee(fee) ==
    IF fee > 0
    THEN [reserve EXCEPT !.total_fees_collected = @ + fee,
                         !.current_reserves = @ + fee]
    ELSE reserve

deposit_collateral(depositor, amount) ==
    /\ called' = "deposit_collateral"
    /\ LendingFrame
    /\ UNCHANGED liquidations
    /\ IF reentrancy THEN RejectReentrant
       ELSE IF depositor = "" THEN Reject("InvalidAddress")
       ELSE IF amount <= 0 THEN Reject("InvalidAmount")
       ELSE IF RiskConfigStorage_get.pause_deposit
            THEN Reject("ProtocolPaused")
       ELSE IF depositor = Malformed THEN Unwind
       ELSE IF depositor \in frozen THEN RejectSuspicious("Unauthorized")
       ELSE
         LET state    == update_state
             accrued  == accrue_interest_for_position(
                             PositionOrNew(depositor),
                             state.current_borrow_rate,
                             state.current_supply_rate, now)
             position == [accrued EXCEPT !.collateral = @ + amount]
             supply_fee ==
                 IF position.supply_interest > 0
                 THEN collect_fees_from_interest(
                          0, position.supply_interest,
                          ir_config.reserve_factor)[2]
                 ELSE 0
         IN  /\ position.collateral <= MaxAmount
             /\ stored' = stored \cup {depositor}
             /\ touched' = [touched EXCEPT ![depositor] = now]
             /\ positions' = [positions EXCEPT ![depositor] = position]
             /\ ir_state' = [state EXCEPT !.total_supplied = @ + amount]
             /\ reserve' = reserve_with_fee(supply_fee)
             /\ metrics' = IF supply_fee > 0
                           THEN [metrics EXCEPT !.total_supply_fees =
                                                    @ + supply_fee]
                           ELSE metrics
             /\ reentrancy' = FALSE
             /\ result' = "Ok"
             /\ UNCHANGED <<oracle_price, oracle_time, suspicious>>

\* a borrow that never tests the ratio
borrow_unchecked(ratio) == FALSE

\* the ratio test of borrow
borrow_rejected(ratio) == ratio < min_ratio

borrow(borrower, amount) ==
    /\ called' = "borrow"
    /\ LendingFrame
    /\ UNCHANGED liquidations
    /\ IF reentrancy THEN RejectReentrant
       ELSE IF borrower = "" THEN Reject("InvalidAddress")
       ELSE IF amount <= 0 THEN Reject("InvalidAmount")
       ELSE IF RiskConfigStorage_get.pause_borrow
            THEN Reject("ProtocolPaused")
       ELSE IF borrower = Malformed THEN Unwind
       ELSE IF borrower \in frozen THEN RejectSuspicious("Unauthorized")
       ELSE
         LET state    == update_state
             position == accrue_interest_for_position(
                             PositionOrNew(borrower),
                             state.current_borrow_rate,
                             state.current_supply_rate, now)
             new_debt == position.debt + amount
             new_position == [position EXCEPT !.debt = new_debt]
             ratio    == dynamic_collateral_ratio(new_position, get_price)
             borrow_fee ==
                 IF position.borrow_interest > 0
                 THEN collect_fees_from_interest(
                          position.borrow_interest, 0,
                          ir_config.reserve_factor)[1]
                 ELSE 0
         IN  /\ ratio_price_read(new_position)
             /\ reentrancy' = FALSE
             /\ IF borrow_rejected(ratio)
                THEN /\ suspicious < MaxSuspicious
                     /\ suspicious' = suspicious + 1
                     /\ ir_state' = state
                     /\ result' = "InsufficientCollateralRatio"
                     /\ UNCHANGED <<stored, positions, touched, reserve, metrics>>
                ELSE /\ new_debt <= MaxAmount
                     /\ stored' = stored \cup {borrower}
                     /\ touched' = [touched EXCEPT ![borrower] = now]
                     /\ positions' = [positions EXCEPT
                                          ![borrower] = new_position]
                     /\ ir_state' = [state EXCEPT
                                         !.total_borrowed = @ + amount]
                     /\ reserve' = reserve_with_fee(borrow_fee)
                     /\ metrics' = IF borrow_fee > 0
                                   THEN [metrics EXCEPT !.total_borrow_fees =
                                                            @ + borrow_fee]
                                   ELSE metrics
                     /\ result' = "Ok"
                     /\ UNCHANGED suspicious

\* a repayment that is not floored at zero
debt_less_amount(debt, amount) == debt - amount

\* the debt repay stores
debt_after_repay(debt, amount) == Max(debt - amount, 0)

\* a total that drops by the whole debt
total_less_debt(total_borrowed, old_debt, new_debt) ==
    total_borrowed - old_debt

\* the total_borrowed repay stores
total_after_repay(total_borrowed, old_debt, new_debt) ==
    total_borrowed - (old_debt - new_debt)

repay(repayer, amount) ==
    /\ called' = "repay"
    /\ LendingFrame
    /\ UNCHANGED liquidations
    /\ IF reentrancy THEN RejectReentrant
       ELSE IF repayer = "" THEN Reject("InvalidAddress")
       ELSE IF amount <= 0 THEN Reject("InvalidAmount")
       ELSE IF repayer = Malformed THEN Unwind
       ELSE IF repayer \in frozen THEN RejectSuspicious("Unauthorized")
       ELSE
         LET state    == update_state
             accrued  == accrue_interest_for_position(
                             PositionOrNew(repayer),
                             state.current_borrow_rate,
                             state.current_supply_rate, now)
             old_debt == accrued.debt
             position == [accrued EXCEPT
                             !.debt = debt_after_repay(@, amount)]
         IN  /\ stored' = stored \cup {repayer}
             /\ touched' = [touched EXCEPT ![repayer] = now]
             /\ positions' = [positions EXCEPT ![repayer] = position]
             /\ ir_state' = [state EXCEPT !.total_borrowed =
                                 total_after_repay(@, old_debt, position.debt)]
             /\ reentrancy' = FALSE
             /\ result' = "Ok"
             /\ UNCHANGED <<reserve, metrics, oracle_price, oracle_time,
                            suspicious>>

\* an early return of withdraw or liquidate before anything was written
\* (neither takes the reentrancy guard)
RejectUnguarded(err) ==
    /\ result' = err
    /\ UNCHANGED <<reentrancy, stored, positions, touched, ir_state, reserve,
                   metrics, oracle_price, oracle_time, suspicious>>

\* a withdrawal that never tests the ratio
withdraw_unchecked(position, ratio) == FALSE

\* the ratio test of withdraw
withdraw_rejected(position, ratio) == position.debt > 0 /\ ratio < min_ratio

withdraw(withdrawer, amount) ==
    /\ called' = "withdraw"
    /\ LendingFrame
    /\ UNCHANGED liquidations
    /\ IF withdrawer = "" THEN RejectUnguarded("InvalidAddress")
       ELSE IF amount <= 0 THEN RejectUnguarded("InvalidAmount")
       ELSE IF RiskConfigStorage_get.pause_withdraw
            THEN RejectUnguarded("ProtocolPaused")
       ELSE IF withdrawer = Malformed THEN RejectUnguarded("Panic")
       ELSE IF withdrawer \in frozen THEN RejectUnguarded("Unauthorized")
       ELSE
         LET state    == update_state
             position == accrue_interest_for_position(
                             PositionOrNew(withdrawer),
                             state.current_borrow_rate,
                             state.current_supply_rate, now)
             new_position == [position EXCEPT !.collateral = @ - amount]
             ratio    == dynamic_collateral_ratio(new_position, get_price)
         IN  /\ UNCHANGED <<reentrancy, reserve, metrics, suspicious>>
             /\ IF position.collateral < amount
                THEN /\ ir_state' = state
                     /\ result' = "InsufficientCollateral"
                     /\ UNCHANGED <<stored, positions, touched, oracle_price,
                                    oracle_time>>
                ELSE /\ ratio_price_read(new_position)
                     /\ IF withdraw_rejected(position, ratio)
                        THEN /\ ir_state' = state
                             /\ result' = "InsufficientCollateralRatio"
                             /\ UNCHANGED <<stored, positions, touched>>
                        ELSE /\ stored' = stored \cup {withdrawer}
                             /\ touched' = [touched EXCEPT ![withdrawer] = now]
                             /\ positions' = [positions EXCEPT
                                                  ![withdrawer] = new_position]
                             /\ ir_state' = [state EXCEPT
                                                 !.total_supplied = @ - amount]
                             /\ result' = "Ok"

\* a liquidation open to every position
always_eligible(ratio) == FALSE

\* the eligibility test of liquidate
not_eligible(ratio) == ratio >= min_ratio

\* a repayment the close factor does not limit
repay_without_close_factor(amount, debt, close_factor) == Min(amount, debt)

\* the debt a liquidation repays
liquidation_repay_amount(amount, debt, close_factor) ==
    LET max_repay_amount == MulDiv(debt, close_factor, SCALE)
    IN  Min(Min(amount, debt), max_repay_amount)

\* a seizure the collateral does not limit
seized_without_cap(repay_amount, liquidation_incentive, collateral) ==
    repay_amount + MulDiv(repay_amount, liquidation_incentive, SCALE)

\* the collateral a liquidation seizes
collateral_seized(repay_amount, liquidation_incentive, collateral) ==
    LET incentive_amount ==
            MulDiv(repay_amount, liquidation_incentive, SCALE)
        total_collateral_seized == repay_amount + incentive_amount
    IN  Min(total_collateral_seized, collateral)

liquidate(liquidator, target, amount) ==
    /\ called' = "liquidate"
    /\ LendingFrame
    /\ IF liquidator = "" \/ target = ""
       THEN RejectUnguarded("InvalidAddress") /\ UNCHANGED liquidations
       ELSE IF amount <= 0
            THEN RejectUnguarded("InvalidAmount") /\ UNCHANGED liquidations
       ELSE IF RiskConfigStorage_get.pause_liquidate
            THEN RejectUnguarded("ProtocolPaused") /\ UNCHANGED liquidations
       ELSE IF target = Malformed
            THEN RejectUnguarded("Panic") /\ UNCHANGED liquidations
       ELSE IF target \in frozen
            THEN RejectUnguarded("Unauthorized") /\ UNCHANGED liquidations
       ELSE IF target \notin stored
            THEN RejectUnguarded("PositionNotFound")
                 /\ UNCHANGED liquidations
       ELSE
         LET state    == update_state
             position == accrue_interest_for_position(
                             positions[target],
                             state.current_borrow_rate,
                             state.current_supply_rate, now)
             ratio    == dynamic_collateral_ratio(position, get_price)
             repay_amount ==
                 liquidation_repay_amount(amount, position.debt,
                                          risk_config.close_factor)
             actual_collateral_seized ==
                 collateral_seized(repay_amount,
                                   risk_config.liquidation_incentive,
                                   position.collateral)
         IN  /\ UNCHANGED <<reentrancy, stored, reserve, metrics,
                            suspicious>>
             /\ ratio_price_read(position)
             /\ IF not_eligible(ratio)
                THEN /\ ir_state' = state
                     /\ result' = "NotEligibleForLiquidation"
                     /\ UNCHANGED <<positions, touched, liquidations>>
                ELSE IF repay_amount = 0
                THEN /\ ir_state' = state
                     /\ result' = "InvalidAmount"
                     /\ UNCHANGED <<positions, touched, liquidations>>
                ELSE /\ liquidations < MaxLiquidations
                     /\ liquidations' = liquidations + 1
                     /\ position.debt - repay_amount <= MaxAmount
                     /\ position.collateral - actual_collateral_seized
                            <= MaxAmount
                     /\ touched' = [touched EXCEPT ![target] = now]
                     /\ positions' =
                            [positions EXCEPT ![target] =
                                [position EXCEPT
                                    !.debt = @ - repay_amount,
                                    !.collateral =
                                        @ - actual_collateral_seized]]
                     /\ ir_state' = [state EXCEPT
                                         !.total_borrowed = @ - repay_amount]
                     /\ result' = "Ok"

\* ------------------------------------------------------------------------
\* Administration
\* ------------------------------------------------------------------------

\* storage the lending operations write and the setters leave alone
SetterFrame ==
    UNCHANGED <<now, configuration, listing, user_activity, admins, returned, reentrancy, stored, positions, touched, reserve, metrics,
                suspicious, emergency_withdrawn, liquidations>>

\* ProtocolConfig::require_admin
\* a check that lets every caller through
require_admin_anyone(caller) == TRUE

require_admin(caller) == caller = Admin

\* a setter that returns before writing
RejectSetter(err) ==
    /\ result' = err
    /\ UNCHANGED <<ir_config, ir_state, risk_config, oracle_set,
                   oracle_price, oracle_time, max_deviation, fallback_price,
                   heartbeat, min_ratio, frozen>>

set_oracle(caller) ==
    /\ called' = "set_oracle"
    /\ SetterFrame
    /\ IF ~require_admin(caller) THEN RejectSetter("NotAdmin")
       ELSE /\ oracle_set' = TRUE
            /\ result' = "Ok"
            /\ UNCHANGED <<ir_config, ir_state, risk_config, oracle_price,
                           oracle_time, max_deviation, fallback_price,
                           heartbeat, min_ratio, frozen>>

set_min_collateral_ratio(caller, ratio) ==
    /\ called' = "set_min_collateral_ratio"
    /\ SetterFrame
    /\ IF ~require_admin(caller) THEN RejectSetter("NotAdmin")
       ELSE /\ min_ratio' = ratio
            /\ result' = "Ok"
            /\ UNCHANGED <<ir_config, ir_state, risk_config, oracle_set,
                           oracle_price, oracle_time, max_deviation,
                           fallback_price, heartbeat, frozen>>

set_max_price_deviation(caller, deviation) ==
    /\ called' = "set_max_price_deviation"
    /\ SetterFrame
    /\ IF ~require_admin(caller) THEN RejectSetter("NotAdmin")
       ELSE /\ max_deviation' = deviation
            /\ result' = "Ok"
            /\ UNCHANGED <<ir_config, ir_state, risk_config, oracle_set,
                           oracle_price, oracle_time, fallback_price,
                           heartbeat, min_ratio, frozen>>

set_oracle_heartbeat(caller, hb) ==
    /\ called' = "set_oracle_heartbeat"
    /\ SetterFrame
    /\ IF ~require_admin(caller) THEN RejectSetter("NotAdmin")
       ELSE /\ heartbeat' = hb
            /\ result' = "Ok"
            /\ UNCHANGED <<ir_config, ir_state, risk_config, oracle_set,
                           oracle_price, oracle_time, max_deviation,
                           fallback_price, min_ratio, frozen>>

set_fallback_price(caller, price) ==
    /\ called' = "set_fallback_price"
    /\ SetterFrame
    /\ IF ~require_admin(caller) THEN RejectSetter("NotAdmin")
       ELSE /\ fallback_price' = price
            /\ result' = "Ok"
            /\ UNCHANGED <<ir_config, ir_state, risk_config, oracle_set,
                           oracle_price, oracle_time, max_deviation,
                           heartbeat, min_ratio, frozen>>

force_update_price(caller, price) ==
    /\ called' = "force_update_price"
    /\ SetterFrame
    /\ IF ~require_admin(caller) THEN RejectSetter("NotAdmin")
       ELSE /\ oracle_price' = price
            /\ oracle_time' = now
            /\ result' = "Ok"
            /\ UNCHANGED <<ir_config, ir_state, risk_config, oracle_set,
                           max_deviation, fallback_price, heartbeat,
                           min_ratio, frozen>>

set_risk_params(caller, close_factor, liquidation_incentive) ==
    /\ called' = "set_risk_params"
    /\ SetterFrame
    /\ IF ~require_admin(caller) THEN RejectSetter("NotAdmin")
       ELSE /\ risk_config' =
                   [risk_config EXCEPT
                       !.close_factor = close_factor,
                       !.liquidation_incentive = liquidation_incentive,
                       !.last_update = now]
            /\ result' = "Ok"
            /\ UNCHANGED <<ir_config, ir_state, oracle_set, oracle_price,
                           oracle_time, max_deviation, fallback_price,
                           heartbeat, min_ratio, frozen>>

set_pause_switches(caller, pause_borrow, pause_deposit, pause_withdraw, pause_liquidate) ==
    /\ called' = "set_pause_switches"
    /\ SetterFrame
    /\ IF ~require_admin(caller) THEN RejectSetter("NotAdmin")
       ELSE /\ risk_config' =
                   [risk_config EXCEPT
                       !.pause_borrow = pause_borrow,
                       !.pause_deposit = pause_deposit,
                       !.pause_withdraw = pause_withdraw,
                       !.pause_liquidate = pause_liquidate,
                       !.last_update = now]
            /\ result' = "Ok"
            /\ UNCHANGED <<ir_config, ir_state, oracle_set, oracle_price,
                           oracle_time, max_deviation, fallback_price,
                           heartbeat, min_ratio, frozen>>

freeze_account(caller, user) ==
    /\ called' = "freeze_account"
    /\ SetterFrame
    /\ IF ~require_admin(caller) THEN RejectSetter("NotAdmin")
       ELSE /\ frozen' = frozen \cup {user}
            /\ result' = "Ok"
            /\ UNCHANGED <<ir_config, ir_state, risk_config, oracle_set,
                           oracle_price, oracle_time, max_deviation,
                           fallback_price, heartbeat, min_ratio>>

unfreeze_account(caller, user) ==
    /\ called' = "unfreeze_account"
    /\ SetterFrame
    /\ IF ~require_admin(caller) THEN RejectSetter("NotAdmin")
       ELSE /\ frozen' = frozen \ {user}
            /\ result' = "Ok"
            /\ UNCHANGED <<ir_config, ir_state, risk_config, oracle_set,
                           oracle_price, oracle_time, max_deviation,
                           fallback_price, heartbeat, min_ratio>>

\* Contract::accrue_interest (anyone can call)
\* ------------------------------------------------------------------------
\* Governance: the admin Vec
\* ------------------------------------------------------------------------
\* admins is what get_admin_set returns: the Vec stored under ADMIN_SET_KEY
\* or, as long as none was saved, the Vec holding the legacy single admin
\* that initialize stored.

GovernanceFrame ==
    UNCHANGED <<now, configuration, listing, user_activity, returned, reentrancy, stored, positions, touched,
                ir_config, ir_state, risk_config, reserve, metrics,
                oracle_set, oracle_price, oracle_time, max_deviation,
                fallback_price, heartbeat, min_ratio, frozen, suspicious,
                emergency_withdrawn, liquidations>>

\* Vec::contains
contains(vec, addr) == \E i \in 1..Len(vec) : vec[i] = addr

\* admins.contains(addr) over get_admin_set
is_admin(addr) == contains(admins, addr)

\* the loop that removes the first entry equal to addr
remove_first(vec, addr) ==
    LET i == CHOOSE k \in 1..Len(vec) :
                 vec[k] = addr /\ \A j \in 1..(k - 1) : vec[j] # addr
    IN  SubSeq(vec, 1, i - 1) \o SubSeq(vec, i + 1, Len(vec))

\* a removal that does not look at the length of the Vec
never_last_admin(vec) == FALSE

\* admins.len() == 1: the last admin cannot be removed
is_last_admin(vec) == Len(vec) = 1

add_admin(admin, new_admin) ==
    /\ called' = "add_admin"
    /\ GovernanceFrame
    /\ IF ~is_admin(admin)
       THEN result' = "Unauthorized" /\ UNCHANGED admins
       ELSE IF contains(admins, new_admin)
       THEN result' = "AlreadyExists" /\ UNCHANGED admins
       ELSE /\ Len(admins) < MaxAdmins
            /\ admins' = Append(admins, new_admin)
            /\ result' = "Ok"

remove_admin(admin, removed) ==
    /\ called' = "remove_admin"
    /\ GovernanceFrame
    /\ IF ~is_admin(admin)
       THEN result' = "Unauthorized" /\ UNCHANGED admins
       ELSE IF ~contains(admins, removed)
       THEN result' = "NotFound" /\ UNCHANGED admins
       ELSE IF is_last_admin(admins)
       THEN result' = "InvalidOperation" /\ UNCHANGED admins
       ELSE /\ admins' = remove_first(admins, removed)
            /\ result' = "Ok"

transfer_admin(admin, new_admin) ==
    /\ called' = "transfer_admin"
    /\ GovernanceFrame
    /\ IF ~is_admin(admin)
       THEN result' = "Unauthorized" /\ UNCHANGED admins
       ELSE /\ admins' = Append(remove_first(admins, admin), new_admin)
            /\ result' = "Ok"

\* RealPriceOracle::get_price called on its own, as the tests call it
RealPriceOracle_get_price ==
    /\ called' = "get_price"
    /\ result' = "Ok"
    /\ returned' = <<get_price>>
    /\ oracle_price' = price_after_get
    /\ oracle_time' = time_after_get
    /\ UNCHANGED <<now, configuration, listing, user_activity, admins, reentrancy, stored, positions, touched, ir_config,
                   ir_state, risk_config, reserve, metrics, oracle_set,
                   max_deviation, fallback_price, heartbeat, min_ratio,
                   frozen, suspicious, emergency_withdrawn, liquidations>>

\* Contract::get_position: <<collateral, debt, ratio>> of the stored
\* position, or of a new one; the ratio reads the price
get_position(user) ==
    /\ called' = "get_position"
    /\ result' = "Ok"
    /\ LET position == PositionOrNew(user)
       IN  /\ returned' = <<position.collateral, position.debt,
                            dynamic_collateral_ratio(position, get_price)>>
           /\ ratio_price_read(position)
    /\ UNCHANGED <<now, configuration, listing, user_activity, admins, reentrancy, stored, positions, touched, ir_config,
                   ir_state, risk_config, reserve, metrics, oracle_set,
                   max_deviation, fallback_price, heartbeat, min_ratio,
                   frozen, suspicious, emergency_withdrawn, liquidations>>

\* what the setters of the interest-rate parameters share: the caller must
\* be the admin, the new InterestRateConfig is saved with the timestamp and
\* InterestRateStorage::update_state recomputes the rates from it
save_rate_config(caller, config) ==
    /\ SetterFrame
    /\ IF ~require_admin(caller) THEN RejectSetter("NotAdmin")
       ELSE /\ ir_config' = [config EXCEPT !.last_update = now]
            /\ ir_state' = update_rates(ir_state, ir_config', now)
            /\ result' = "Ok"
            /\ UNCHANGED <<risk_config, oracle_set, oracle_price,
                           oracle_time, max_deviation, fallback_price,
                           heartbeat, min_ratio, frozen>>

set_base_rate(caller, rate) ==
    /\ called' = "set_base_rate"
    /\ save_rate_config(caller, [ir_config EXCEPT !.base_rate = rate])

set_kink_utilization(caller, utilization) ==
    /\ called' = "set_kink_utilization"
    /\ save_rate_config(caller,
                        [ir_config EXCEPT !.kink_utilization = utilization])

set_multiplier(caller, multiplier) ==
    /\ called' = "set_multiplier"
    /\ save_rate_config(caller, [ir_config EXCEPT !.multiplier = multiplier])

set_reserve_factor(caller, factor) ==
    /\ called' = "set_reserve_factor"
    /\ save_rate_config(caller, [ir_config EXCEPT !.reserve_factor = factor])

set_rate_limits(caller, floor, ceiling) ==
    /\ called' = "set_rate_limits"
    /\ save_rate_config(caller, [ir_config EXCEPT !.rate_floor = floor,
                                                  !.rate_ceiling = ceiling])

\* writes the borrow rate into the InterestRateState without recomputing
emergency_rate_adjustment(caller, new_rate) ==
    /\ called' = "emergency_rate_adjustment"
    /\ SetterFrame
    /\ IF ~require_admin(caller) THEN RejectSetter("NotAdmin")
       ELSE /\ ir_state' = [ir_state EXCEPT !.current_borrow_rate = new_rate,
                                            !.last_accrual_time = now]
            /\ result' = "Ok"
            /\ UNCHANGED <<ir_config, risk_config, oracle_set, oracle_price,
                           oracle_time, max_deviation, fallback_price,
                           heartbeat, min_ratio, frozen>>

\* get_current_rates and get_utilization_metrics: a read that saves the
\* recomputed InterestRateState
get_current_rates ==
    /\ called' = "get_current_rates"
    /\ ir_state' = update_state
    /\ result' = "Ok"
    /\ UNCHANGED <<now, configuration, listing, user_activity, admins, returned, reentrancy, stored, positions, touched, ir_config,
                   risk_config, reserve, metrics, oracle_set, oracle_price,
                   oracle_time, max_deviation, fallback_price, heartbeat,
                   min_ratio, frozen, suspicious, emergency_withdrawn,
                   liquidations>>

accrue_interest ==
    /\ called' = "accrue_interest"
    /\ ir_state' = update_state
    /\ result' = "Ok"
    /\ UNCHANGED <<now, configuration, listing, user_activity, admins, returned, reentrancy, stored, positions, touched, ir_config,
                   risk_config, reserve, metrics, oracle_set, oracle_price,
                   oracle_time, max_deviation, fallback_price, heartbeat,
                   min_ratio, frozen, suspicious, emergency_withdrawn,
                   liquidations>>

\* ------------------------------------------------------------------------
\* Reserve management
\* ------------------------------------------------------------------------

\* storage the reserve operations leave alone
ReserveFrame ==
    UNCHANGED <<now, configuration, listing, user_activity, admins, returned, reentrancy, stored, positions, touched, ir_config, ir_state,
                risk_config, oracle_set, oracle_price, oracle_time,
                max_deviation, fallback_price, heartbeat, min_ratio, frozen,
                suspicious, liquidations>>

RejectReserve(err) ==
    /\ result' = err
    /\ UNCHANGED <<reserve, metrics, emergency_withdrawn>>

collect_protocol_fees(caller, amount, source) ==
    /\ called' = "collect_protocol_fees"
    /\ ReserveFrame
    /\ IF ~require_admin(caller) THEN RejectReserve("NotAdmin")
       ELSE IF amount <= 0 THEN RejectReserve("InvalidAmount")
       ELSE /\ reserve.total_fees_collected + amount <= MaxFees
            /\ reserve' = [reserve EXCEPT
                               !.total_fees_collected = @ + amount,
                               !.current_reserves = @ + amount]
            /\ metrics' =
                   IF source = "borrow"
                   THEN [metrics EXCEPT !.total_borrow_fees = @ + amount]
                   ELSE IF source = "supply"
                   THEN [metrics EXCEPT !.total_supply_fees = @ + amount]
                   ELSE metrics
            /\ result' = "Ok"
            /\ UNCHANGED emergency_withdrawn

distribute_fees_to_treasury(caller, amount) ==
    /\ called' = "distribute_fees_to_treasury"
    /\ ReserveFrame
    /\ IF ~require_admin(caller) THEN RejectReserve("NotAdmin")
       ELSE IF amount <= 0 THEN RejectReserve("InvalidAmount")
       ELSE IF amount > reserve.current_reserves
            THEN RejectReserve("InsufficientCollateral")
       ELSE /\ reserve' = [reserve EXCEPT
                               !.total_fees_distributed = @ + amount,
                               !.current_reserves = @ - amount,
                               !.last_distribution_time = now]
            /\ result' = "Ok"
            /\ UNCHANGED <<metrics, emergency_withdrawn>>

\* a withdrawal the reserves do not limit
never_exceeds(amount, reserve_data) == FALSE

\* the bound emergency_withdraw_fees puts on the amount
exceeds_reserves(amount, reserve_data) ==
    amount > reserve_data.current_reserves

\* a withdrawal booked as a distribution
reserve_after_booked_withdrawal(reserve_data, amount) ==
    [reserve_data EXCEPT !.current_reserves = @ - amount,
                         !.total_fees_distributed = @ + amount]

\* the ReserveData emergency_withdraw_fees stores
reserve_after_emergency(reserve_data, amount) ==
    [reserve_data EXCEPT !.current_reserves = @ - amount]

emergency_withdraw_fees(caller, amount) ==
    /\ called' = "emergency_withdraw_fees"
    /\ ReserveFrame
    /\ IF ~require_admin(caller) THEN RejectReserve("NotAdmin")
       ELSE IF amount <= 0 THEN RejectReserve("InvalidAmount")
       ELSE IF exceeds_reserves(amount, reserve)
            THEN RejectReserve("InsufficientCollateral")
       ELSE /\ reserve' = reserve_after_emergency(reserve, amount)
            /\ emergency_withdrawn' = emergency_withdrawn + amount
            /\ result' = "Ok"
            /\ UNCHANGED metrics

\* ------------------------------------------------------------------------
\* The ledger clock
\* ------------------------------------------------------------------------

Tick ==
    /\ now < MaxTime
    /\ now' = now + 1
    /\ UNCHANGED <<configuration, listing, user_activity, admins, reentrancy, stored, positions, touched, ir_config, ir_state,
                   risk_config, reserve, metrics, oracle_set, oracle_price,
                   oracle_time, max_deviation, fallback_price, heartbeat,
                   min_ratio, frozen, suspicious, emergency_withdrawn,
                   liquidations, called, returned, result>>

\* the ledger closes a year later: env.ledger().timestamp() grows by
\* seconds_per_year, the span over which a rate of r accrues r of the
\* principal
TickYear ==
    /\ now < MaxYears * SECONDS_PER_YEAR
    /\ now' = now + SECONDS_PER_YEAR
    /\ UNCHANGED <<configuration, listing, user_activity, admins, reentrancy, stored, positions, touched, ir_config,
                   ir_state, risk_config, reserve, metrics, oracle_set,
                   oracle_price, oracle_time, max_deviation, fallback_price,
                   heartbeat, min_ratio, frozen, suspicious,
                   emergency_withdrawn, liquidations, called, returned, result>>

\* ------------------------------------------------------------------------
\* Inputs
\* ------------------------------------------------------------------------

Amounts == {500, 1000}

\* one accepted amount and the amount no operation accepts
AmountsOrZero == {0, 1000}

RatioInputs == {150, 300}

\* <<close_factor, liquidation_incentive>>
RiskParamInputs ==
    {<<30000000, 20000000>>, <<0, 20000000>>, <<100000000, 200000000>>}

\* with a pair below zero, which set_risk_params stores as well
SignedRiskParamInputs == RiskParamInputs \cup {<<-50000000, -200000000>>}

PauseInputs ==
    {<<FALSE, FALSE, FALSE, FALSE>>, <<TRUE, FALSE, FALSE, FALSE>>,
     <<FALSE, TRUE, FALSE, FALSE>>, <<FALSE, FALSE, TRUE, FALSE>>,
     <<FALSE, FALSE, FALSE, TRUE>>}

PriceInputs == {100000000}

DeviationInputs == {100}

\* stored prices 5 and 100 percent away from the simulated price of 2.0
OraclePriceInputs == {190000000, 100000000}

SmallDeviationInputs == {5, 100}

HeartbeatInputs == {60}

\* base rates below the floors and above the ceilings of RateLimitInputs
BaseRateInputs == {50000, 10000000}

KinkInputs == {50000000}

MultiplierInputs == {20000000}

ReserveFactorInputs == {20000000}

\* <<floor, ceiling>>: the limits of the tests, and a pair with the floor
\* above the ceiling, which set_rate_limits stores as well
RateLimitInputs == {<<1000000, 3000000>>, <<3000000, 1000000>>}

EmergencyRateInputs == {7000000}

FeeAmounts == {0, 1, 2}

FeeSources == {"borrow", "supply", "other"}

\* ------------------------------------------------------------------------
\* Specification: the state after Contract::initialize, then any calls
\* ------------------------------------------------------------------------

Init ==
    /\ now = 0
    /\ reentrancy = FALSE
    /\ stored = {}
    /\ positions = [u \in Users |-> NewPosition]
    /\ ir_config = InterestRateConfigDefault
    /\ ir_state = InterestRateStateInitial
    /\ risk_config = RiskConfigDefault
    /\ reserve = ReserveDataDefault
    /\ metrics = RevenueMetricsDefault
    /\ oracle_set = FALSE
    /\ oracle_price = 0
    /\ oracle_time = 0
    /\ max_deviation = DEFAULT_MAX_DEVIATION
    /\ fallback_price = DEFAULT_FALLBACK_PRICE
    /\ heartbeat = DEFAULT_HEARTBEAT
    /\ min_ratio = DEFAULT_MIN_RATIO
    /\ frozen = {}
    /\ suspicious = 0
    /\ admins = <<Admin>>
    /\ version_counter = 0
    /\ current_config = <<>>
    /\ config_history = <<>>
    /\ backups = <<>>
    /\ proposals = <<>>
    /\ asset_proposals = <<>>
    /\ assets = InitialAssets
    /\ asset_registry = AssetRegistry_new("XLM")
    /\ user_activity = [k \in ActivityKeys |-> <<>>]
    /\ emergency_withdrawn = 0
    /\ liquidations = 0
    /\ touched = [u \in Users |-> 0]
    /\ returned = <<>>
    /\ called = "initialize"
    /\ result = "Ok"

\* one borrower and no liquidator; calls with an empty address or a zero
\* amount, paused operations and a frozen account included
NextBorrow ==
    \/ \E a \in Amounts : deposit_collateral(Borrower, a)
    \/ \E u \in {Borrower, ""}, a \in AmountsOrZero \cup Amounts : borrow(u, a)
    \/ \E a \in Amounts : repay(Borrower, a)
    \/ \E u \in {Borrower, ""}, a \in AmountsOrZero \cup Amounts :
           withdraw(u, a)
    \/ set_oracle(Admin)
    \/ \E r \in RatioInputs : set_min_collateral_ratio(Admin, r)
    \/ \E p \in PauseInputs :
           set_pause_switches(Admin, p[1], p[2], p[3], p[4])
    \/ freeze_account(Admin, Borrower)
    \/ unfreeze_account(Admin, Borrower)

SpecBorrow == Init /\ [][NextBorrow]_vars

\* one borrower, valid calls, and the risk and price parameter changes
Next ==
    \/ \E a \in Amounts : deposit_collateral(Borrower, a)
    \/ \E a \in Amounts : borrow(Borrower, a)
    \/ \E a \in Amounts : repay(Borrower, a)
    \/ \E a \in Amounts : withdraw(Borrower, a)
    \/ \E t \in Users, a \in Amounts : liquidate(Liquidator, t, a)
    \/ set_oracle(Admin)
    \/ \E r \in {300} : set_min_collateral_ratio(Admin, r)
    \/ \E p \in RiskParamInputs : set_risk_params(Admin, p[1], p[2])

Spec == Init /\ [][Next]_vars

\* one borrower under every change of the risk, ratio and oracle settings
NextParams ==
    \/ deposit_collateral(Borrower, 1000)
    \/ \E a \in Amounts : borrow(Borrower, a)
    \/ repay(Borrower, 1000)
    \/ withdraw(Borrower, 500)
    \/ liquidate(Liquidator, Borrower, 1000)
    \/ set_oracle(Admin)
    \/ \E r \in {300} : set_min_collateral_ratio(Admin, r)
    \/ \E p \in PriceInputs : force_update_price(Admin, p)
    \/ \E p \in PriceInputs : set_fallback_price(Admin, p)
    \/ \E p \in SignedRiskParamInputs : set_risk_params(Admin, p[1], p[2])

SpecParams == Init /\ [][NextParams]_vars

\* two users sharing the global totals
NextUsers ==
    \/ \E u \in Users, a \in Amounts : deposit_collateral(u, a)
    \/ \E u \in Users, a \in Amounts : borrow(u, a)
    \/ \E u \in Users, a \in Amounts : repay(u, a)
    \/ \E u \in Users, a \in Amounts : withdraw(u, a)
    \/ \E l \in Users, t \in Users, a \in Amounts : liquidate(l, t, a)
    \/ \E r \in {300} : set_min_collateral_ratio(Admin, r)

SpecUsers == Init /\ [][NextUsers]_vars

\* one borrower, rejected calls included, while the ledger clock advances
NextTime ==
    \/ \E u \in {"u1", ""}, a \in AmountsOrZero : deposit_collateral(u, a)
    \/ \E u \in {"u1", ""}, a \in AmountsOrZero : borrow(u, a)
    \/ \E u \in {"u1", ""}, a \in AmountsOrZero : repay(u, a)
    \/ \E u \in {"u1", ""}, a \in AmountsOrZero : withdraw(u, a)
    \/ \E l \in {"u2", ""}, t \in Addresses, a \in AmountsOrZero :
           liquidate(l, t, a)
    \/ accrue_interest
    \/ \E c \in Callers : set_oracle(c)
    \/ \E c \in Callers, r \in RatioInputs : set_min_collateral_ratio(c, r)
    \/ \E c \in Callers, p \in PriceInputs : force_update_price(c, p)
    \/ Tick

SpecTime == Init /\ [][NextTime]_vars

\* the switches and oracle settings of the admin around one borrower
NextAdmin ==
    \/ deposit_collateral("u1", 1000)
    \/ borrow("u1", 1000)
    \/ repay("u1", 1000)
    \/ withdraw("u1", 1000)
    \/ liquidate("u2", "u1", 1000)
    \/ \E c \in Callers : set_oracle(c)
    \/ \E c \in Callers, p \in PriceInputs : force_update_price(c, p)
    \/ \E c \in Callers, d \in DeviationInputs : set_max_price_deviation(c, d)
    \/ \E c \in Callers, h \in HeartbeatInputs : set_oracle_heartbeat(c, h)
    \/ \E c \in Callers, p \in PriceInputs : set_fallback_price(c, p)
    \/ \E c \in Callers, p \in PauseInputs :
           set_pause_switches(c, p[1], p[2], p[3], p[4])
    \/ \E c \in Callers : freeze_account(c, "u1")
    \/ \E c \in Callers : unfreeze_account(c, "u1")

SpecAdmin == Init /\ [][NextAdmin]_vars

\* the reserve operations next to fee-collecting lending calls
NextReserve ==
    \/ \E c \in Callers, a \in FeeAmounts, src \in FeeSources :
           collect_protocol_fees(c, a, src)
    \/ \E c \in Callers, a \in FeeAmounts : distribute_fees_to_treasury(c, a)
    \/ \E c \in Callers, a \in FeeAmounts : emergency_withdraw_fees(c, a)
    \/ deposit_collateral("u1", 1000)
    \/ borrow("u1", 1000)
    \/ repay("u1", 1000)

SpecReserve == Init /\ [][NextReserve]_vars

\* the guarded operations with well-formed, empty and malformed addresses
LockAddresses == {Borrower, Malformed, ""}

NextLock ==
    \/ \E u \in LockAddresses, a \in AmountsOrZero : deposit_collateral(u, a)
    \/ \E u \in LockAddresses, a \in AmountsOrZero : borrow(u, a)
    \/ \E u \in LockAddresses, a \in AmountsOrZero : repay(u, a)
    \/ \E u \in LockAddresses, a \in AmountsOrZero : withdraw(u, a)
    \/ set_oracle(Admin)
    \/ \E r \in RatioInputs : set_min_collateral_ratio(Admin, r)

SpecLock == Init /\ [][NextLock]_vars

\* collateral, debt and price the collateral ratio is computed from
CollateralInputs == {0, 1, 1000}

DebtInputs == {0, 1, 2, 3, 500, 1000}

RatioPriceInputs == {0, 100000000, 150000000}

\* a state with one stored position of any of these collaterals and debts,
\* the totals that go with it, and any of these fallback prices
InitRatio ==
    \E c \in CollateralInputs, d \in DebtInputs, p \in RatioPriceInputs :
        /\ now = 0
        /\ reentrancy = FALSE
        /\ stored = {Borrower}
        /\ positions = [u \in Users |->
               IF u = Borrower
               THEN [NewPosition EXCEPT !.collateral = c, !.debt = d]
               ELSE NewPosition]
        /\ ir_config = InterestRateConfigDefault
        /\ ir_state = [InterestRateStateInitial EXCEPT
                           !.total_supplied = c, !.total_borrowed = d]
        /\ risk_config = RiskConfigDefault
        /\ reserve = ReserveDataDefault
        /\ metrics = RevenueMetricsDefault
        /\ oracle_set = FALSE
        /\ oracle_price = 0
        /\ oracle_time = 0
        /\ max_deviation = DEFAULT_MAX_DEVIATION
        /\ fallback_price = p
        /\ heartbeat = DEFAULT_HEARTBEAT
        /\ min_ratio = DEFAULT_MIN_RATIO
        /\ frozen = {}
        /\ suspicious = 0
        /\ admins = <<Admin>>
        /\ version_counter = 0
        /\ current_config = <<>>
        /\ config_history = <<>>
        /\ backups = <<>>
        /\ proposals = <<>>
        /\ asset_proposals = <<>>
        /\ assets = InitialAssets
        /\ asset_registry = AssetRegistry_new("XLM")
        /\ user_activity = [k \in ActivityKeys |-> <<>>]
        /\ emergency_withdrawn = 0
        /\ liquidations = 0
        /\ touched = [u \in Users |-> 0]
        /\ called = "initialize"
        /\ returned = <<>>
        /\ result = "Ok"

NextRatio ==
    \/ get_position(Borrower)
    \/ set_oracle(Admin)

SpecRatio == InitRatio /\ [][NextRatio]_vars

\* the addresses that call and are named in the governance functions
GovernanceAddresses == {Admin, "u1", "u2"}

NextGovernance ==
    \/ \E a, b \in GovernanceAddresses : add_admin(a, b)
    \/ \E a, b \in GovernanceAddresses : remove_admin(a, b)
    \/ \E a, b \in GovernanceAddresses : transfer_admin(a, b)

SpecGovernance == Init /\ [][NextGovernance]_vars

\* the admin Vec and two of the setters it is meant to gate
NextGate ==
    \/ \E a, b \in GovernanceAddresses : add_admin(a, b)
    \/ \E a, b \in GovernanceAddresses : remove_admin(a, b)
    \/ \E a, b \in GovernanceAddresses : transfer_admin(a, b)
    \/ \E c \in GovernanceAddresses, p \in RiskParamInputs :
           set_risk_params(c, p[1], p[2])
    \/ \E c \in GovernanceAddresses, p \in PauseInputs :
           set_pause_switches(c, p[1], p[2], p[3], p[4])

SpecGate == Init /\ [][NextGate]_vars

set_treasury_address(caller, treasury) ==
    /\ called' = "set_treasury_address"
    /\ ReserveFrame
    /\ IF ~require_admin(caller) THEN RejectReserve("NotAdmin")
       ELSE /\ reserve' = [reserve EXCEPT !.treasury_address = treasury]
            /\ result' = "Ok"
            /\ UNCHANGED <<metrics, emergency_withdrawn>>

\* one admin-only operation of each kind, called by the admin and by a user
NextGuard ==
    \/ \E c \in Callers : set_oracle(c)
    \/ \E c \in Callers : set_min_collateral_ratio(c, 200)
    \/ \E c \in Callers : set_fallback_price(c, 100000000)
    \/ \E c \in Callers : set_base_rate(c, 10000000)
    \/ \E c \in Callers : set_risk_params(c, 30000000, 20000000)
    \/ \E c \in Callers : set_pause_switches(c, TRUE, FALSE, FALSE, FALSE)
    \/ \E c \in Callers : set_treasury_address(c, "u2")
    \/ \E c \in Callers : collect_protocol_fees(c, 1, "borrow")
    \/ \E c \in Callers : freeze_account(c, "u1")

SpecGuard == Init /\ [][NextGuard]_vars

\* ------------------------------------------------------------------------
\* Configuration manager
\* ------------------------------------------------------------------------

\* the checks of ConfigurationValidator that push an error
validate_interest_config(config) ==
    /\ ~(config.base_rate < 0)
    /\ ~(config.base_rate > 100000000)
    /\ ~(config.kink_utilization <= 0 \/ config.kink_utilization > 100000000)
    /\ ~(config.multiplier < 0)
    /\ ~(config.reserve_factor < 0 \/ config.reserve_factor > 100000000)
    /\ ~(config.rate_floor > config.rate_ceiling)
    /\ ~(config.rate_ceiling > 100000000)

\* a risk check that accepts every value
validate_risk_config_any(config) == TRUE

validate_risk_config(config) ==
    /\ ~(config.close_factor <= 0 \/ config.close_factor > 100000000)
    /\ ~(config.liquidation_incentive < 0 \/ config.liquidation_incentive > 50000000)

validate_oracle_config(config) ==
    /\ ~(config.max_deviation <= 0 \/ config.max_deviation > 100000000)
    /\ ~(config.heartbeat = 0)
    /\ ~(config.fallback_price <= 0)

validate_protocol_params(params) ==
    /\ ~(params.min_collateral_ratio < 100)
    /\ ~(params.distribution_frequency = 0)
    /\ ~(params.max_assets = 0)

validate_asset_config(config) ==
    /\ ~(config.symbol = "")
    /\ ~(config.decimals > 18)
    /\ ~(config.min_collateral_ratio < 100)

\* ValidationResult.is_valid
validate_configuration(config) ==
    /\ validate_interest_config(config.interest_config)
    /\ validate_risk_config(config.risk_config)
    /\ validate_oracle_config(config.oracle_config)
    /\ validate_protocol_params(config.protocol_params)
    /\ \A i \in 1..Len(config.asset_configs) :
           validate_asset_config(config.asset_configs[i])

\* the interest, risk, oracle, protocol and asset parameters of a
\* ProtocolConfiguration, without its ConfigurationVersion
business(config) ==
    <<config.interest_config, config.risk_config, config.oracle_config,
      config.protocol_params, config.asset_configs>>

\* the structs the Contract functions build from their tuple arguments;
\* input is <<base_rate, close_factor>> and the other arguments are fixed
to_configuration(input, version) ==
    [version |-> version,
     interest_config |->
         [InterestRateConfigDefault EXCEPT !.base_rate = input[1],
                                           !.last_update = now],
     risk_config |->
         [RiskConfigDefault EXCEPT !.close_factor = input[2],
                                   !.last_update = now],
     oracle_config |->
         [max_deviation |-> 5000000, heartbeat |-> 3600,
          fallback_price |-> 100000000, enabled |-> TRUE],
     protocol_params |->
         [min_collateral_ratio |-> 150, treasury_address |-> Admin,
          distribution_frequency |-> 86400,
          emergency_pause_enabled |-> FALSE, max_assets |-> 10],
     asset_configs |-> <<>>]

\* the version the two proposal and update wrappers put into the struct
\* they hand to the ConfigurationManager
placeholder_version(admin) ==
    [version |-> 0, created_at |-> 0, created_by |-> admin,
     description |-> <<"">>, is_active |-> FALSE]

\* ConfigurationVersion with the number get_next_version hands out
next_version(admin, description) ==
    [version |-> version_counter + 1, created_at |-> now,
     created_by |-> admin, description |-> description, is_active |-> TRUE]

with_version(config, version) == [config EXCEPT !.version = version]

\* the number of configurations save_config_to_history keeps
CONFIG_HISTORY_LIMIT == 10

\* a history that keeps every entry
save_config_to_history_unbounded(history, config) == Append(history, config)

\* ConfigurationStorage::save_config_to_history
save_config_to_history(history, config) ==
    LET pushed == Append(history, config)
    IN  IF Len(pushed) > CONFIG_HISTORY_LIMIT THEN SubSeq(pushed, 2, Len(pushed)) ELSE pushed

\* storage the configuration functions leave alone
ConfigFrame ==
    UNCHANGED <<now, listing, user_activity, reentrancy, stored, positions, ir_config,
                ir_state, risk_config, reserve, metrics, oracle_set,
                oracle_price, oracle_time, max_deviation, fallback_price,
                heartbeat, min_ratio, frozen, suspicious, admins,
                emergency_withdrawn, liquidations, touched, returned>>

\* a configuration function that returns before writing
RejectConfig(err) ==
    /\ result' = err
    /\ UNCHANGED configuration

create_configuration(admin, input) ==
    /\ called' = "create_configuration"
    /\ ConfigFrame
    /\ IF ~require_admin(admin) THEN RejectConfig("NotAdmin")
       ELSE LET config ==
                    to_configuration(input, next_version(admin, <<"Created">>))
            IN  /\ version_counter' = version_counter + 1
                /\ UNCHANGED <<backups, proposals>>
                /\ IF ~validate_configuration(config)
                   THEN /\ result' = "InvalidInput"
                        /\ UNCHANGED <<current_config, config_history>>
                   ELSE /\ config_history' =
                               save_config_to_history(config_history, config)
                        /\ current_config' = <<config>>
                        /\ result' = "Ok"

\* ConfigurationManager::update_configuration, which approve_proposal calls
\* as well; the old version is marked inactive in a local copy only
ConfigurationManager_update_configuration(admin, description, updates) ==
    IF ~require_admin(admin) THEN RejectConfig("NotAdmin")
    ELSE IF current_config = <<>>
    THEN /\ result' = "NotFound"
         /\ UNCHANGED <<version_counter, current_config, config_history>>
    ELSE LET updated_config ==
                 with_version(updates, next_version(admin, description))
         IN  /\ version_counter' = version_counter + 1
             /\ IF ~validate_configuration(updated_config)
                THEN /\ result' = "InvalidInput"
                     /\ UNCHANGED <<current_config, config_history>>
                ELSE /\ config_history' =
                            save_config_to_history(config_history,
                                                   updated_config)
                     /\ current_config' = <<updated_config>>
                     /\ result' = "Ok"

update_configuration(admin, input) ==
    /\ called' = "update_configuration"
    /\ ConfigFrame
    /\ IF ~require_admin(admin) THEN RejectConfig("NotAdmin")
       ELSE /\ ConfigurationManager_update_configuration(
                   admin, <<"Updated">>,
                   to_configuration(input, placeholder_version(admin)))
            /\ UNCHANGED <<backups, proposals>>

create_config_backup(admin) ==
    /\ called' = "create_config_backup"
    /\ ConfigFrame
    /\ IF ~require_admin(admin) THEN RejectConfig("NotAdmin")
       ELSE IF current_config = <<>> THEN RejectConfig("NotFound")
       ELSE /\ backups' =
                   Append(backups,
                          [backup_id |-> Len(backups) + 1,
                           configuration |-> current_config[1],
                           created_at |-> now, created_by |-> admin])
            /\ result' = "Ok"
            /\ UNCHANGED <<version_counter, current_config, config_history,
                           proposals>>

\* the configuration restore_from_backup makes current
restored_from_current(admin, backup) ==
    with_version(current_config[1],
                 next_version(admin, <<"Restored from backup">>))

restored_config(admin, backup) ==
    with_version(backup.configuration,
                 next_version(admin, <<"Restored from backup">>))

restore_config_backup(admin, backup_id) ==
    /\ called' = "restore_config_backup"
    /\ ConfigFrame
    /\ IF ~require_admin(admin) THEN RejectConfig("NotAdmin")
       ELSE IF backup_id \notin 1..Len(backups) THEN RejectConfig("NotFound")
       ELSE /\ version_counter' = version_counter + 1
            /\ config_history' =
                   save_config_to_history(
                       config_history,
                       restored_config(admin, backups[backup_id]))
            /\ current_config' =
                   <<restored_config(admin, backups[backup_id])>>
            /\ result' = "Ok"
            /\ UNCHANGED <<backups, proposals>>

create_config_proposal(admin, expires_in_seconds, input) ==
    /\ called' = "create_config_proposal"
    /\ ConfigFrame
    /\ LET proposed_config ==
               to_configuration(input, placeholder_version(admin))
       IN  IF ~require_admin(admin) THEN RejectConfig("NotAdmin")
           ELSE IF current_config = <<>> THEN RejectConfig("NotFound")
           ELSE IF ~validate_configuration(proposed_config)
           THEN RejectConfig("InvalidInput")
           ELSE /\ proposals' =
                       Append(proposals,
                              [proposal_id |-> Len(proposals) + 1,
                               proposed_config |-> proposed_config,
                               current_version |->
                                   current_config[1].version.version,
                               created_at |-> now, created_by |-> admin,
                               status |-> "Pending",
                               expires_at |-> now + expires_in_seconds])
                /\ result' = "Ok"
                /\ UNCHANGED <<version_counter, current_config,
                               config_history, backups>>

\* whether approve_proposal finds the proposal expired
never_expired(proposal) == FALSE

expired(proposal) == now > proposal.expires_at

\* whether a proposal can still be decided
always_pending(status) == TRUE

is_pending(status) == status = "Pending"

\* the configuration approve_proposal hands to update_configuration
applied_current(proposal) == current_config[1]

applied_config(proposal) == proposal.proposed_config

approve_config_proposal(admin, proposal_id) ==
    /\ called' = "approve_config_proposal"
    /\ ConfigFrame
    /\ UNCHANGED backups
    /\ IF ~require_admin(admin)
       THEN RejectConfig("NotAdmin")
       ELSE IF proposal_id \notin 1..Len(proposals)
       THEN RejectConfig("NotFound")
       ELSE IF ~is_pending(proposals[proposal_id].status)
       THEN RejectConfig("InvalidOperation")
       ELSE IF expired(proposals[proposal_id])
       THEN /\ proposals' =
                   [proposals EXCEPT ![proposal_id].status = "Cancelled"]
            /\ result' = "InvalidOperation"
            /\ UNCHANGED <<version_counter, current_config, config_history>>
       ELSE /\ proposals' =
                   [proposals EXCEPT ![proposal_id].status = "Approved"]
            /\ ConfigurationManager_update_configuration(
                   admin, <<"Applied proposal", proposal_id>>,
                   applied_config(proposals[proposal_id]))

reject_config_proposal(admin, proposal_id) ==
    /\ called' = "reject_config_proposal"
    /\ ConfigFrame
    /\ IF ~require_admin(admin) THEN RejectConfig("NotAdmin")
       ELSE IF proposal_id \notin 1..Len(proposals)
       THEN RejectConfig("NotFound")
       ELSE IF ~is_pending(proposals[proposal_id].status)
       THEN RejectConfig("InvalidOperation")
       ELSE /\ proposals' =
                   [proposals EXCEPT ![proposal_id].status = "Rejected"]
            /\ result' = "Ok"
            /\ UNCHANGED <<version_counter, current_config, config_history,
                           backups>>

\* ------------------------------------------------------------------------
\* Asset listing proposals
\* ------------------------------------------------------------------------

\* String::len of the symbols proposed here
len(symbol) ==
    CASE symbol = "" -> 0
      [] symbol = "XLM" -> 3
      [] symbol = "TEST" -> 4
      [] symbol = "ELEVENCHARS" -> 11

\* storage the listing functions leave alone
ListingFrame ==
    UNCHANGED <<now, configuration, user_activity, reentrancy, stored, positions,
                ir_config, ir_state, risk_config, reserve, metrics,
                oracle_set, oracle_price, oracle_time, max_deviation,
                fallback_price, heartbeat, min_ratio, frozen, suspicious,
                admins, emergency_withdrawn, liquidations, touched,
                returned>>

RejectListing(err) ==
    /\ result' = err
    /\ UNCHANGED listing

propose_asset(proposer, symbol, collateral_factor, borrow_factor) ==
    /\ called' = "propose_asset"
    /\ ListingFrame
    /\ IF len(symbol) > 10 THEN RejectListing("InvalidInput")
       ELSE IF collateral_factor > 10000 \/ borrow_factor > 10000
       THEN RejectListing("InvalidInput")
       ELSE /\ asset_proposals' =
                   Append(asset_proposals,
                          [id |-> Len(asset_proposals) + 1,
                           proposer |-> proposer, symbol |-> symbol,
                           collateral_factor |-> collateral_factor,
                           borrow_factor |-> borrow_factor,
                           status |-> "Pending", created_at |-> now])
            /\ result' = "Ok"
            /\ UNCHANGED <<assets, asset_registry>>

\* AssetStorage::get_asset_info: <<>> or <<info>>
get_asset_info(asset) == assets[asset_info_key(asset)]

\* what Contract::add_asset returns
add_asset_result(caller, symbol, decimals) ==
    IF ~require_admin(caller) THEN "NotAdmin"
    ELSE IF symbol = "" THEN "InvalidAsset"
    ELSE IF decimals = 0 THEN "InvalidAmount"
    ELSE IF get_asset_info(symbol) # <<>> THEN "AlreadyInitialized"
    ELSE "Ok"

\* what Contract::add_asset writes when it returns Ok
asset_added(symbol, decimals, min_collateral_ratio) ==
    /\ assets' =
           [assets EXCEPT ![asset_info_key(symbol)] =
               <<AssetInfo_new(symbol, decimals, min_collateral_ratio)>>]
    /\ asset_registry' =
           [asset_registry EXCEPT
               !.supported_assets = Append(@, symbol), !.last_update = now]

add_asset(caller, symbol, decimals, min_collateral_ratio) ==
    /\ called' = "add_asset"
    /\ ListingFrame
    /\ result' = add_asset_result(caller, symbol, decimals)
    /\ UNCHANGED asset_proposals
    /\ IF result' = "Ok"
       THEN asset_added(symbol, decimals, min_collateral_ratio)
       ELSE UNCHANGED <<assets, asset_registry>>

approve_proposal(admin, proposal_id) ==
    /\ called' = "approve_proposal"
    /\ ListingFrame
    /\ IF ~is_admin(admin) THEN RejectListing("Unauthorized")
       ELSE IF proposal_id \notin 1..Len(asset_proposals)
       THEN RejectListing("NotFound")
       ELSE IF ~is_pending(asset_proposals[proposal_id].status)
       THEN RejectListing("InvalidOperation")
       ELSE IF add_asset_result(admin, asset_proposals[proposal_id].symbol, 7)
                   # "Ok"
       THEN RejectListing(add_asset_result(
                admin, asset_proposals[proposal_id].symbol, 7))
       ELSE /\ asset_added(asset_proposals[proposal_id].symbol, 7,
                           asset_proposals[proposal_id].collateral_factor)
            /\ asset_proposals' =
                   [asset_proposals EXCEPT ![proposal_id].status = "Approved"]
            /\ result' = "Ok"

reject_proposal(admin, proposal_id) ==
    /\ called' = "reject_proposal"
    /\ ListingFrame
    /\ IF ~is_admin(admin) THEN RejectListing("Unauthorized")
       ELSE IF proposal_id \notin 1..Len(asset_proposals)
       THEN RejectListing("NotFound")
       ELSE IF ~is_pending(asset_proposals[proposal_id].status)
       THEN RejectListing("InvalidOperation")
       ELSE /\ asset_proposals' =
                   [asset_proposals EXCEPT ![proposal_id].status = "Rejected"]
            /\ result' = "Ok"
            /\ UNCHANGED <<assets, asset_registry>>

cancel_proposal(proposer, proposal_id) ==
    /\ called' = "cancel_proposal"
    /\ ListingFrame
    /\ IF proposal_id \notin 1..Len(asset_proposals)
       THEN RejectListing("NotFound")
       ELSE IF asset_proposals[proposal_id].proposer # proposer
       THEN RejectListing("Unauthorized")
       ELSE IF ~is_pending(asset_proposals[proposal_id].status)
       THEN RejectListing("InvalidOperation")
       ELSE /\ asset_proposals' =
                   [asset_proposals EXCEPT ![proposal_id].status = "Cancelled"]
            /\ result' = "Ok"
            /\ UNCHANGED <<assets, asset_registry>>

\* <<base_rate, close_factor>>: two valid configurations and one whose
\* close factor the validator refuses
ConfigInputs ==
    {<<2000000, 50000000>>, <<3000000, 50000000>>, <<3000000, 0>>}

\* what create_configuration is given, and what the proposals are given
InitialConfigInputs == {<<2000000, 50000000>>, <<3000000, 0>>}

ProposedConfigInputs == {<<3000000, 50000000>>, <<3000000, 0>>}

ExpiryInputs == {0, 1}

ProposalIds == 1..(MaxProposals + 1)

SymbolInputs == {"TEST", "XLM", "", "ELEVENCHARS"}

\* <<collateral_factor, borrow_factor>>
FactorInputs == {<<8000, 7500>>, <<10001, 7500>>}

\* configuration proposals, with time passing
NextProposals ==
    \/ Tick
    \/ /\ version_counter < MaxVersions
       /\ \E c \in Callers, i \in InitialConfigInputs :
              create_configuration(c, i)
    \/ /\ Len(proposals) < MaxProposals
       /\ \E c \in Callers, e \in ExpiryInputs, i \in ProposedConfigInputs :
              create_config_proposal(c, e, i)
    \/ \E c \in Callers, id \in ProposalIds : approve_config_proposal(c, id)
    \/ \E c \in Callers, id \in ProposalIds : reject_config_proposal(c, id)

SpecProposals == Init /\ [][NextProposals]_vars

\* the ways a proposal of either kind is decided, for MaxProposals + 1
\* proposals of the two kinds together
NextDecided ==
    \/ /\ \E id \in 1..Len(proposals) : proposals[id].status = "Pending"
       /\ Tick
    \/ /\ current_config = <<>>
       /\ create_configuration(Admin, <<2000000, 50000000>>)
    \/ /\ Len(proposals) + Len(asset_proposals) < MaxProposals + 1
       /\ create_config_proposal(Admin, 0, <<3000000, 50000000>>)
    \/ \E id \in ProposalIds : approve_config_proposal(Admin, id)
    \/ \E id \in ProposalIds : reject_config_proposal(Admin, id)
    \/ /\ Len(proposals) + Len(asset_proposals) < MaxProposals + 1
       /\ \E s \in SymbolInputs, f \in FactorInputs :
              propose_asset("u1", s, f[1], f[2])
    \/ \E id \in ProposalIds : approve_proposal(Admin, id)
    \/ \E id \in ProposalIds : reject_proposal(Admin, id)
    \/ \E id \in ProposalIds : cancel_proposal("u1", id)

SpecDecided == Init /\ [][NextDecided]_vars

BackupIds == 1..(MaxBackups + 1)

\* configurations created, updated, backed up and restored
NextBackup ==
    \/ /\ version_counter < MaxVersions
       /\ \E c \in Callers, i \in InitialConfigInputs :
              create_configuration(c, i)
    \/ /\ version_counter < MaxVersions + 2
       /\ \E c \in Callers, i \in ConfigInputs : update_configuration(c, i)
    \/ /\ Len(backups) < MaxBackups
       /\ \E c \in Callers : create_config_backup(c)
    \/ /\ version_counter < MaxVersions + 3
       /\ \E c \in Callers, id \in BackupIds : restore_config_backup(c, id)

SpecBackup == Init /\ [][NextBackup]_vars

\* enough versions to fill the configuration history and evict from it
NextHistory ==
    \/ /\ version_counter < MaxVersions
       /\ \E i \in InitialConfigInputs : create_configuration(Admin, i)
    \/ /\ version_counter < CONFIG_HISTORY_LIMIT + MaxVersions + 1
       /\ \E i \in ProposedConfigInputs : update_configuration(Admin, i)

SpecHistory == Init /\ [][NextHistory]_vars

\* what a query that writes nothing leaves alone
QueryFrame ==
    UNCHANGED <<now, configuration, listing, user_activity, admins, reentrancy, stored,
                positions, touched, ir_config, ir_state, risk_config,
                reserve, metrics, oracle_set, oracle_price, oracle_time,
                max_deviation, fallback_price, heartbeat, min_ratio, frozen,
                suspicious, emergency_withdrawn, liquidations>>

\* saves the recomputed InterestRateState, accrues on a copy of the
\* position that is not saved
get_user_accrued_interest(user) ==
    /\ called' = "get_user_accrued_interest"
    /\ ir_state' = update_state
    /\ LET position ==
               accrue_interest_for_position(
                   PositionOrNew(user), ir_state'.current_borrow_rate,
                   ir_state'.current_supply_rate, now)
       IN  returned' = <<position.borrow_interest, position.supply_interest>>
    /\ result' = "Ok"
    /\ UNCHANGED <<now, configuration, listing, user_activity, admins, reentrancy, stored,
                   positions, touched, ir_config, risk_config, reserve,
                   metrics, oracle_set, oracle_price, oracle_time,
                   max_deviation, fallback_price, heartbeat, min_ratio,
                   frozen, suspicious, emergency_withdrawn, liquidations>>

get_risk_config ==
    /\ called' = "get_risk_config"
    /\ returned' = <<risk_config.close_factor,
                     risk_config.liquidation_incentive,
                     risk_config.pause_borrow, risk_config.pause_deposit,
                     risk_config.pause_withdraw, risk_config.pause_liquidate,
                     risk_config.last_update>>
    /\ result' = "Ok"
    /\ QueryFrame

get_reserve_data ==
    /\ called' = "get_reserve_data"
    /\ returned' = <<reserve.total_fees_collected,
                     reserve.total_fees_distributed, reserve.current_reserves,
                     reserve.treasury_address, reserve.last_distribution_time,
                     reserve.distribution_frequency>>
    /\ result' = "Ok"
    /\ QueryFrame

\* the query operations, after calls that give them something to read
NextQueries ==
    \/ deposit_collateral(Borrower, 1000)
    \/ borrow(Borrower, 500)
    \/ set_oracle(Admin)
    \/ \E r \in EmergencyRateInputs : emergency_rate_adjustment(Admin, r)
    \/ Tick
    \/ get_position(Borrower)
    \/ get_current_rates
    \/ get_user_accrued_interest(Borrower)
    \/ get_risk_config
    \/ get_reserve_data

SpecQueries == Init /\ [][NextQueries]_vars

AssetSymbolInputs == {"USDC", "BTC", "DOGE", "LINK", ""}

\* <<decimals, min_collateral_ratio>>
AssetParamInputs == {<<6, 120>>, <<0, 120>>}

\* assets added to the registry
NextAssets ==
    \E c \in Callers, s \in AssetSymbolInputs, p \in AssetParamInputs :
        add_asset(c, s, p[1], p[2])

SpecAssets == Init /\ [][NextAssets]_vars

\* two users who deposit and borrow while their activity is tracked
ActivityInputs == TrackedActions \cup {"transfer"}

ActivityAmounts == {100}

NextActivity ==
    \/ \E u \in Users, a \in Amounts : deposit_collateral(u, a)
    \/ \E u \in Users, a \in Amounts : borrow(u, a)
    \/ \E u \in Users, t \in ActivityInputs, a \in ActivityAmounts :
          /\ get_user_activity(u).activity_count < MaxActivities
          /\ track_user_activity(u, t, a)

SpecActivity == Init /\ [][NextActivity]_vars

\* one borrower at the oracle's price, which values the collateral above
\* the minimum ratio
UtilizationAmounts == {300, 400}

NextUtilization ==
    \/ \E a \in UtilizationAmounts : deposit_collateral(Borrower, a)
    \/ \E a \in UtilizationAmounts : borrow(Borrower, a)
    \/ \E a \in UtilizationAmounts : repay(Borrower, a)
    \/ \E a \in UtilizationAmounts : withdraw(Borrower, a)
    \/ set_oracle(Admin)

SpecUtilization == Init /\ [][NextUtilization]_vars

\* the pause switches and the four operations they stop
NextPause ==
    \/ deposit_collateral(Borrower, 1000)
    \/ \E a \in Amounts : borrow(Borrower, a)
    \/ withdraw(Borrower, 500)
    \/ liquidate(Liquidator, Borrower, 500)
    \/ set_min_collateral_ratio(Admin, 300)
    \/ \E p \in PauseInputs :
           set_pause_switches(Admin, p[1], p[2], p[3], p[4])

SpecPause == Init /\ [][NextPause]_vars

\* the price oracle: its configuration, the stored price and its readers
NextOracle ==
    \/ deposit_collateral(Borrower, 1000)
    \/ borrow(Borrower, 500)
    \/ get_position(Borrower)
    \/ RealPriceOracle_get_price
    \/ set_oracle(Admin)
    \/ \E p \in OraclePriceInputs : force_update_price(Admin, p)
    \/ \E d \in SmallDeviationInputs : set_max_price_deviation(Admin, d)
    \/ \E p \in PriceInputs : set_fallback_price(Admin, p)
    \/ Tick

SpecOracle == Init /\ [][NextOracle]_vars

\* the interest-rate parameters and the calls that recompute the rates
NextRates ==
    \/ deposit_collateral(Borrower, 1000)
    \/ \E a \in Amounts : borrow(Borrower, a)
    \/ accrue_interest
    \/ get_current_rates
    \/ \E c \in Callers, r \in BaseRateInputs : set_base_rate(c, r)
    \/ \E u \in KinkInputs : set_kink_utilization(Admin, u)
    \/ \E x \in MultiplierInputs : set_multiplier(Admin, x)
    \/ \E f \in ReserveFactorInputs : set_reserve_factor(Admin, f)
    \/ \E l \in RateLimitInputs : set_rate_limits(Admin, l[1], l[2])
    \/ \E r \in EmergencyRateInputs : emergency_rate_adjustment(Admin, r)

SpecRates == Init /\ [][NextRates]_vars

\* one borrower's lending operations a year apart
NextAccrual ==
    \/ deposit_collateral(Borrower, 1000)
    \/ \E a \in Amounts : borrow(Borrower, a)
    \/ \E a \in Amounts : repay(Borrower, a)
    \/ withdraw(Borrower, 500)
    \/ accrue_interest
    \/ set_oracle(Admin)
    \/ TickYear

SpecAccrual == Init /\ [][NextAccrual]_vars

\* ------------------------------------------------------------------------
\* Properties
\* ------------------------------------------------------------------------

\* the position a call on account u starts from, with debt raised by a
position_with_debt(u, a) == [PositionOrNew(u) EXCEPT !.debt = @ + a]

\* the position a call on account u starts from, with collateral lowered by a
position_less_collateral(u, a) ==
    [PositionOrNew(u) EXCEPT !.collateral = @ - a]

positions_untouched == positions' = positions /\ stored' = stored

C2_WithdrawRatio ==
    [][\A u \in {Borrower, ""}, a \in AmountsOrZero \cup Amounts :
         withdraw(u, a) =>
           LET old   == PositionOrNew(u)
               ratio == dynamic_collateral_ratio(
                            position_less_collateral(u, a), get_price)
               valid == /\ u # "" /\ a > 0
                        /\ ~risk_config.pause_withdraw /\ u \notin frozen
               kept  == /\ positions_untouched
                        /\ ir_state'.total_supplied = ir_state.total_supplied
           IN  /\ (valid /\ a > old.collateral) =>
                     result' = "InsufficientCollateral" /\ kept
               /\ (valid /\ a <= old.collateral /\ old.debt > 0
                         /\ ratio < min_ratio) =>
                     result' = "InsufficientCollateralRatio" /\ kept
               /\ result' = "InsufficientCollateralRatio" =>
                     old.debt > 0 /\ ratio < min_ratio
               /\ result' = "Ok" =>
                     /\ old.debt > 0 => ratio >= min_ratio
                     /\ positions'[u].collateral = old.collateral - a
                     /\ ir_state'.total_supplied = ir_state.total_supplied - a
      ]_vars

\* a withdrawal from collateral 1000 backing debt 500 was rejected for its
\* ratio and the position is as before
C2_Witness ==
    /\ called = "withdraw"
    /\ result = "InsufficientCollateralRatio"
    /\ "u1" \in stored
    /\ positions["u1"].collateral = 1000
    /\ positions["u1"].debt = 500
    /\ ir_state.total_supplied = 1000

C4_LiquidationRepay ==
    [][/\ liquidation_repay_amount(500, 800, 30000000) = 240
       /\ \A t \in Users, a \in Amounts :
            liquidate(Liquidator, t, a) =>
              LET old      == positions[t]
                  ratio    == dynamic_collateral_ratio(old, get_price)
                  repaid   == Min(Min(a, old.debt),
                                  MulDiv(old.debt, risk_config.close_factor,
                                         SCALE))
                  eligible == /\ ~risk_config.pause_liquidate
                              /\ t \notin frozen
                              /\ t \in stored
                              /\ ratio < min_ratio
              IN  /\ result' = "Ok" =>
                        /\ repaid # 0
                        /\ positions'[t].debt = old.debt - repaid
                        /\ ir_state'.total_borrowed =
                               ir_state.total_borrowed - repaid
                  /\ (eligible /\ repaid = 0) =>
                        /\ result' = "InvalidAmount"
                        /\ positions' = positions
                        /\ ir_state'.total_borrowed = ir_state.total_borrowed
      ]_vars

\* debt 1000 was liquidated at a close factor of 30% and is now 700
C4_Witness ==
    /\ called = "liquidate"
    /\ result = "Ok"
    /\ risk_config.close_factor = 30000000
    /\ positions["u1"].debt = 700
    /\ ir_state.total_borrowed = 700

\* C5: a successful liquidate lowers the target's collateral by exactly
\* min(repay + repay * liquidation_incentive / 1e8, collateral), repay being
\* the debt the call repaid (an incentive of 20% on a repayment of 400
\* seizes 480, or all the collateral when there is less)
C5_LiquidationSeizure ==
    [][/\ collateral_seized(400, 20000000, 1000) = 480
       /\ collateral_seized(400, 20000000, 450) = 450
       /\ (called' = "liquidate" /\ result' = "Ok") =>
            \A t \in Users :
              LET old    == positions[t]
                  repaid == old.debt - positions'[t].debt
                  seized == Min(repaid
                                + MulDiv(repaid,
                                         risk_config.liquidation_incentive,
                                         SCALE),
                                old.collateral)
              IN  positions'[t].collateral = old.collateral - seized
      ]_vars

\* a liquidation whose incentive exceeded the collateral seized all of it
C5_Witness ==
    /\ called = "liquidate"
    /\ result = "Ok"
    /\ risk_config.liquidation_incentive = 200000000
    /\ positions["u1"].collateral = 0
    /\ positions["u1"].debt = 500

\* C6: every stored position has collateral >= 0 and debt >= 0, whatever
\* the lending calls and the changes of the risk parameters, the minimum
\* ratio and the oracle before
C6_PositionsNonNegative ==
    \A u \in stored : positions[u].collateral >= 0 /\ positions[u].debt >= 0

\* the debt 700 a liquidation left was repaid with more than was owed
C6_Witness ==
    /\ called = "repay"
    /\ result = "Ok"
    /\ liquidations = 1
    /\ positions["u1"].collateral = 640
    /\ positions["u1"].debt = 0

RECURSIVE SumDebt(_)
SumDebt(S) ==
    IF S = {} THEN 0
    ELSE LET u == CHOOSE x \in S : TRUE
         IN  positions[u].debt + SumDebt(S \ {u})

\* C7: total_borrowed equals the sum of the debts of all stored positions
\* after any deposits, borrows, repayments (also of more than the debt),
\* withdrawals and liquidations by any users
C7_TotalBorrowedIsSum == ir_state.total_borrowed = SumDebt(stored)

\* one account repaid more than the 250 a liquidation left it owing while
\* the other account still owes
C7_Witness ==
    /\ called = "repay"
    /\ result = "Ok"
    /\ stored = Users
    /\ positions["u1"].collateral = 225
    /\ positions["u1"].debt = 0
    /\ positions["u2"].debt > 0

\* C8 as claimed: current_reserves equals total_fees_collected minus
\* total_fees_distributed in every state the reserve operations reach
C8_ReservesAreCollectedLessDistributed ==
    reserve.current_reserves =
        reserve.total_fees_collected - reserve.total_fees_distributed

\* C8: current_reserves equals total_fees_collected minus
\* total_fees_distributed minus the sum of the amounts of all successful
\* emergency withdrawals, and so lies between 0 and collected - distributed
C8_ReservesLessEmergencyWithdrawals ==
    /\ emergency_withdrawn >= 0
    /\ reserve.current_reserves =
           reserve.total_fees_collected - reserve.total_fees_distributed
               - emergency_withdrawn
    /\ reserve.current_reserves >= 0

\* fees were collected, one part distributed and one part withdrawn in an
\* emergency
C8_Witness ==
    /\ called = "emergency_withdraw_fees"
    /\ result = "Ok"
    /\ reserve.total_fees_collected = 3
    /\ reserve.total_fees_distributed = 1
    /\ emergency_withdrawn = 1
    /\ reserve.current_reserves = 1

\* C9: emergency_withdraw_fees by the admin with 0 < amount <=
\* current_reserves lowers current_reserves by amount and leaves
\* total_fees_collected and total_fees_distributed as they were; with
\* amount > current_reserves it returns InsufficientCollateral and changes
\* nothing; current_reserves is never negative
C9_EmergencyWithdraw ==
    [][/\ reserve'.current_reserves >= 0
       /\ \A a \in FeeAmounts :
            emergency_withdraw_fees(Admin, a) =>
              /\ (0 < a /\ a <= reserve.current_reserves) =>
                    /\ result' = "Ok"
                    /\ reserve'.current_reserves =
                           reserve.current_reserves - a
                    /\ reserve'.total_fees_collected =
                           reserve.total_fees_collected
                    /\ reserve'.total_fees_distributed =
                           reserve.total_fees_distributed
              /\ a > reserve.current_reserves =>
                    /\ result' = "InsufficientCollateral"
                    /\ persisted' = persisted
      ]_vars

\* an emergency withdrawal of more than the reserves hold was refused
C9_Witness ==
    /\ called = "emergency_withdraw_fees"
    /\ result = "InsufficientCollateral"
    /\ reserve.current_reserves = 1
    /\ reserve.total_fees_collected = 1

\* C10: a call that returns an error leaves every persisted value as it was
\* before the call
C10_FailedCallKeepsState ==
    [][result' # "Ok" => persisted' = persisted]_vars

\* C11: after any deposit_collateral, borrow or repay call that acquired
\* the reentrancy lock finishes, by success, by a returned error or by an
\* abnormal unwind, the lock is clear; a call that finds the lock set is
\* rejected and modifies no position and no total
C11_LockClearAfterCall ==
    [][\A u \in LockAddresses, a \in AmountsOrZero :
          (deposit_collateral(u, a) \/ borrow(u, a) \/ repay(u, a)) =>
              /\ ~reentrancy => ~reentrancy'
              /\ reentrancy =>
                    /\ result' = "Unknown"
                    /\ positions' = positions
                    /\ stored' = stored
                    /\ ir_state' = ir_state
                    /\ reserve' = reserve
      ]_vars

\* a lending operation on the position of u, with any amount
LendingOn(u) ==
    \E a \in Amounts :
        \/ deposit_collateral(u, a)
        \/ borrow(u, a)
        \/ repay(u, a)
        \/ withdraw(u, a)

\* C12: a successful lending operation at time t2 on a position last saved
\* at t1 < t2 adds D * borrow_rate * (t2 - t1) / (31536000 * 1e8) to the
\* accrued borrow interest of a position with debt D > 0, and
\* C * supply_rate * (t2 - t1) / (31536000 * 1e8) to the accrued supply
\* interest of a position with collateral C > 0
C12_PositionInterestAccrues ==
    [][LET old   == PositionOrNew(Borrower)
           delta == now - touched[Borrower]
           new   == positions'[Borrower]
       IN  (LendingOn(Borrower) /\ result' = "Ok" /\ delta > 0) =>
               /\ old.debt > 0 =>
                     new.borrow_interest = old.borrow_interest +
                         calculate_interest(old.debt,
                             update_state.current_borrow_rate, delta)
               /\ old.collateral > 0 =>
                     new.supply_interest = old.supply_interest +
                         calculate_interest(old.collateral,
                             update_state.current_supply_rate, delta)
      ]_vars

\* C13: accrue_interest called again at the timestamp of the accrue_interest
\* call before it, with no call in between, changes nothing: positions,
\* InterestRateState and ReserveData are what the first call left
C13_AccrueTwiceSameTime ==
    [][(/\ accrue_interest
        /\ called = "accrue_interest"
        /\ ir_state.last_accrual_time = now) => persisted' = persisted
      ]_vars

\* accrue_interest has run a year after a deposit and a borrow, and the
\* rates it stored are not zero
C13_Witness ==
    /\ called = "accrue_interest"
    /\ result = "Ok"
    /\ now = SECONDS_PER_YEAR
    /\ ir_state.last_accrual_time = now
    /\ ir_state.total_borrowed > 0
    /\ ir_state.current_borrow_rate > 0
    /\ ir_state.current_supply_rate > 0

\* C14: once a deposit and a borrow have succeeded and accrue_interest has
\* run with a positive reserve factor, the protocol's share of the accrued
\* interest has reached the reserves: total_fees_collected > 0 and
\* current_reserves > 0
C14_FeesCollectedFromInterest ==
    (/\ called = "accrue_interest"
     /\ ir_state.total_supplied > 0
     /\ ir_state.total_borrowed > 0
     /\ ir_config.reserve_factor > 0) =>
        /\ reserve.total_fees_collected > 0
        /\ reserve.current_reserves > 0

\* the value of x limited to lo..hi, for lo <= hi
Clamp(x, lo, hi) == IF x < lo THEN lo ELSE IF x > hi THEN hi ELSE x

\* the functions that recompute the rates
RecomputingCalls ==
    {"deposit_collateral", "borrow", "repay", "withdraw", "liquidate",
     "accrue_interest", "get_current_rates", "set_base_rate", "set_kink_utilization", "set_multiplier",
     "set_reserve_factor", "set_rate_limits"}

RatioAtDebt(d) ==
    dynamic_collateral_ratio([positions[Borrower] EXCEPT !.debt = d],
                             get_price)

\* C17 as claimed: the ratio returned for a position without debt is the
\* maximal value, and the ratio returned for one with debt is strictly
\* above the ratio of every larger debt at the same collateral and price
C17_RatioStrictlyDecreasing ==
    called = "get_position" =>
        /\ returned[2] = 0 => returned[3] = I128_MAX
        /\ returned[2] > 0 =>
              \A d \in DebtInputs : d > returned[2] => RatioAtDebt(d) < returned[3]

\* C17: the ratio returned for a position without debt is the maximal
\* value, and the ratio returned for one with debt, with collateral and
\* price not negative, is at or above the ratio of every larger debt at the
\* same collateral and price
C17_RatioNeverIncreasing ==
    called = "get_position" =>
        /\ returned[2] = 0 =>
              /\ returned[3] = I128_MAX
              /\ \A d \in DebtInputs : RatioAtDebt(d) <= returned[3]
        /\ returned[2] > 0 =>
              \A d \in DebtInputs : d > returned[2] => RatioAtDebt(d) <= returned[3]

\* the ratio of collateral 1 and debt 500 at price 1.5 was returned: it is
\* 0, as it is for debt 1000
C17_Witness ==
    /\ called = "get_position"
    /\ returned = <<1, 500, 0>>
    /\ fallback_price = 150000000
    /\ RatioAtDebt(1000) = 0
    /\ RatioAtDebt(3) = 50

C19_PauseSwitches ==
    [][\A a \in Amounts :
          /\ borrow(Borrower, a) =>
                IF risk_config.pause_borrow
                THEN result' = "ProtocolPaused" /\ persisted' = persisted
                ELSE result' # "ProtocolPaused"
          /\ deposit_collateral(Borrower, a) =>
                IF risk_config.pause_deposit
                THEN result' = "ProtocolPaused" /\ persisted' = persisted
                ELSE result' # "ProtocolPaused"
          /\ withdraw(Borrower, a) =>
                IF risk_config.pause_withdraw
                THEN result' = "ProtocolPaused" /\ persisted' = persisted
                ELSE result' # "ProtocolPaused"
          /\ liquidate(Liquidator, Borrower, a) =>
                IF risk_config.pause_liquidate
                THEN result' = "ProtocolPaused" /\ persisted' = persisted
                ELSE result' # "ProtocolPaused"
      ]_vars

\* a liquidation of a position below the minimum ratio was refused while
\* liquidations were paused
C19_Witness ==
    /\ called = "liquidate"
    /\ result = "ProtocolPaused"
    /\ risk_config.pause_liquidate
    /\ min_ratio = 300
    /\ positions[Borrower].collateral = 1000
    /\ positions[Borrower].debt = 500
    /\ liquidations = 0

C21_SettersGatedByAdminSet ==
    [][\A c \in GovernanceAddresses :
          /\ \A p \in RiskParamInputs :
                set_risk_params(c, p[1], p[2]) =>
                    (result' = "Ok" <=> is_admin(c))
          /\ \A p \in PauseInputs :
                set_pause_switches(c, p[1], p[2], p[3], p[4]) =>
                    (result' = "Ok" <=> is_admin(c))
      ]_vars

\* what an admin-only call has to do: refused with NotAdmin and nothing
\* stored for a caller other than the admin, Ok and the value stored for
\* the admin
Gated(caller, call, readback) ==
    call => IF caller = Admin
            THEN result' = "Ok" /\ readback
            ELSE result' = "NotAdmin" /\ persisted' = persisted

decided(vec, id) == id \in 1..Len(vec) /\ vec[id].status # "Pending"

\* C23: once a configuration proposal or an asset listing proposal is
\* Approved, Rejected or Cancelled, its status never changes again and
\* every later approve, reject or cancel call on it fails
C23_DecidedProposalsAreFinal ==
    [][/\ \A id \in ProposalIds :
             /\ decided(proposals, id) =>
                    proposals'[id].status = proposals[id].status
             /\ decided(asset_proposals, id) =>
                    asset_proposals'[id].status = asset_proposals[id].status
       /\ \A c \in Addresses, id \in ProposalIds :
             /\ decided(proposals, id) /\ approve_config_proposal(c, id)
                    => result' # "Ok"
             /\ decided(proposals, id) /\ reject_config_proposal(c, id)
                    => result' # "Ok"
             /\ decided(asset_proposals, id) /\ approve_proposal(c, id)
                    => result' # "Ok"
             /\ decided(asset_proposals, id) /\ reject_proposal(c, id)
                    => result' # "Ok"
             /\ decided(asset_proposals, id) /\ cancel_proposal(c, id)
                    => result' # "Ok"
      ]_vars

\* the admin's approval of a rejected configuration proposal was refused
\* while an asset listing proposal stands approved
C23_Witness ==
    /\ decided(proposals, 1)
    /\ proposals[1].status = "Rejected"
    /\ called = "approve_config_proposal"
    /\ result = "InvalidOperation"
    /\ decided(asset_proposals, 1)
    /\ asset_proposals[1].status = "Approved"

\* C24: approve_proposal by the admin on a Pending configuration proposal
\* at a time past its expires_at fails, leaves the proposal Cancelled and
\* the current configuration as it was; and a proposal becomes Approved
\* only at a time that is not later than its expires_at
C24_ExpiryEnforcedAtApproval ==
    [][\A id \in ProposalIds :
          /\ (/\ id \in 1..Len(proposals)
              /\ proposals[id].status = "Pending"
              /\ now > proposals[id].expires_at
              /\ approve_config_proposal(Admin, id))
                 => /\ result' # "Ok"
                    /\ proposals'[id].status = "Cancelled"
                    /\ current_config' = current_config
          /\ (/\ id \in 1..Len(proposals')
              /\ proposals'[id].status = "Approved"
              /\ ~(id \in 1..Len(proposals)
                      /\ proposals[id].status = "Approved"))
                 => now' <= proposals'[id].expires_at
      ]_vars

\* an approval came after the proposal's expiry and cancelled it
C24_Witness ==
    /\ called = "approve_config_proposal"
    /\ result = "InvalidOperation"
    /\ Len(proposals) >= 1
    /\ proposals[1].status = "Cancelled"
    /\ now > proposals[1].expires_at

\* the proposal is Approved after the step and was not before it
becomes_approved(id) ==
    /\ id \in 1..Len(proposals')
    /\ proposals'[id].status = "Approved"
    /\ ~(id \in 1..Len(proposals) /\ proposals[id].status = "Approved")

\* the step made the proposal's parameters the current configuration, as
\* the newest history entry and under a version above the previous one
activates(id) ==
    /\ current_config' # <<>>
    /\ business(current_config'[1]) = business(proposals'[id].proposed_config)
    /\ current_config # <<>>
    /\ current_config'[1].version.version > current_config[1].version.version
    /\ \A i \in 1..Len(config_history) :
           current_config'[1].version.version >
               config_history[i].version.version
    /\ config_history' # <<>>
    /\ config_history'[Len(config_history')] = current_config'[1]

\* C25: a successful approve_proposal marks the proposal Approved and in
\* the same call makes its interest, risk, oracle, protocol and asset
\* parameters the current configuration under a version strictly greater
\* than the previous one; and no step marks a proposal Approved without
\* activating its configuration
C25_ApprovalActivates ==
    [][\A id \in ProposalIds :
          /\ \A c \in Callers :
                approve_config_proposal(c, id) /\ result' = "Ok"
                    => becomes_approved(id) /\ activates(id)
          /\ becomes_approved(id)
                => /\ called' = "approve_config_proposal"
                   /\ result' = "Ok"
                   /\ activates(id)
      ]_vars

\* a proposal was approved and its parameters are the current configuration
C25_Witness ==
    /\ called = "approve_config_proposal"
    /\ result = "Ok"
    /\ Len(proposals) >= 1
    /\ proposals[1].status = "Approved"
    /\ business(current_config[1]) = business(proposals[1].proposed_config)
    /\ current_config[1].version.version = 2

\* every version number handed out so far
earlier_versions ==
    {config_history[i].version.version : i \in 1..Len(config_history)}
        \cup {current_config[i].version.version : i \in 1..Len(current_config)}
        \cup {backups[i].configuration.version.version : i \in 1..Len(backups)}

\* C26: create_backup stores the current configuration; a later
\* restore_from_backup of that backup, whatever happened in between, makes
\* current a configuration with the interest, risk, oracle, protocol and
\* asset parameters of the backup under a version strictly greater than
\* every earlier version; and no step modifies a stored backup
C26_RestoreRoundTrip ==
    [][/\ \A c \in Callers :
             create_config_backup(c) /\ result' = "Ok"
                 => backups'[Len(backups')].configuration = current_config[1]
       /\ \A c \in Callers, id \in BackupIds :
             restore_config_backup(c, id) /\ result' = "Ok"
                 => /\ business(current_config'[1]) =
                           business(backups[id].configuration)
                    /\ \A v \in earlier_versions :
                           current_config'[1].version.version > v
       /\ \A id \in 1..Len(backups) :
             id \in 1..Len(backups') /\ backups'[id] = backups[id]
      ]_vars

\* a backup was restored over a configuration with other parameters
C26_Witness ==
    /\ called = "restore_config_backup"
    /\ result = "Ok"
    /\ business(current_config[1]) = business(backups[1].configuration)
    /\ \E i \in 1..Len(config_history) :
           /\ config_history[i].version.version >
                  backups[1].configuration.version.version
           /\ business(config_history[i]) #
                  business(backups[1].configuration)

\* C27: the configuration history never holds more than 10 entries; a
\* version recorded into a full history evicts the oldest entry and keeps
\* the others in their order, so the entries are the most recent recorded
\* versions in strictly increasing version order
C27_HistoryBounded ==
    /\ [](Len(config_history) <= CONFIG_HISTORY_LIMIT)
    /\ [](\A i, j \in 1..Len(config_history) :
             i < j => config_history[i].version.version <
                          config_history[j].version.version)
    /\ [][config_history' # config_history =>
             /\ config_history'[Len(config_history')] = current_config'[1]
             /\ IF Len(config_history) = CONFIG_HISTORY_LIMIT
                THEN config_history' =
                         Append(SubSeq(config_history, 2,
                                       CONFIG_HISTORY_LIMIT),
                                current_config'[1])
                ELSE config_history' =
                         Append(config_history, current_config'[1])
         ]_vars

\* an eleventh version was recorded and the first one evicted
C27_Witness ==
    /\ Len(config_history) = CONFIG_HISTORY_LIMIT
    /\ config_history[1].version.version > 1
    /\ config_history[CONFIG_HISTORY_LIMIT] = current_config[1]

\* C28: exactly one configuration version is active: in the history only
\* the newest entry is marked active, the entries of the versions it
\* replaced are marked inactive
C28_OneActiveVersion ==
    \A i \in 1..Len(config_history) :
        config_history[i].version.is_active <=> i = Len(config_history)

\* C29: the RiskConfig liquidation reads always has a close factor above 0
\* and at most 1e8 and a liquidation incentive from 0 to 0.5e8, whatever
\* was passed to set_risk_params
C29_RiskConfigInRange ==
    /\ 0 < RiskConfigStorage_get.close_factor
    /\ RiskConfigStorage_get.close_factor <= SCALE
    /\ 0 <= RiskConfigStorage_get.liquidation_incentive
    /\ RiskConfigStorage_get.liquidation_incentive <= SCALE \div 2

\* C30: a query operation leaves every stored value as it was, the
\* InterestRateState and the stored oracle price and timestamp included
C30_QueriesReadOnly ==
    [][/\ get_position(Borrower) => persisted' = persisted
       /\ get_current_rates => persisted' = persisted
       /\ get_user_accrued_interest(Borrower) => persisted' = persisted
       /\ get_risk_config => persisted' = persisted
       /\ get_reserve_data => persisted' = persisted
      ]_vars

\* how often a symbol is listed in supported_assets
listed(symbol) ==
    Cardinality({i \in 1..Len(asset_registry.supported_assets) :
                    asset_registry.supported_assets[i] = symbol})

\* C31: an asset added with add_asset is listed once in supported_assets
\* and get_asset_info of its symbol returns the record registered for that
\* symbol, for any distinct symbols; only a symbol that was added before is
\* refused with AlreadyInitialized
C31_AssetsRegisteredBySymbol ==
    /\ [](\A s \in AssetSymbolInputs :
             listed(s) >= 1 =>
                 /\ listed(s) = 1
                 /\ get_asset_info(s) # <<>>
                 /\ get_asset_info(s)[1].symbol = s)
    /\ [][\A s \in AssetSymbolInputs, p \in AssetParamInputs :
             add_asset(Admin, s, p[1], p[2]) =>
                 /\ result' = "Ok" =>
                        get_asset_info(s)' =
                            <<AssetInfo_new(s, p[1], p[2])>>
                 /\ result' = "AlreadyInitialized" => listed(s) >= 1
         ]_vars

\* C32: a lending operation or a track_user_activity call for one user
\* leaves the position and the activity metrics of every other user as they
\* were.
C32_UserRecordsIndependent ==
    [][\A a \in Users :
          (\/ \E x \in Amounts : deposit_collateral(a, x)
           \/ \E x \in Amounts : borrow(a, x)
           \/ \E t \in ActivityInputs, x \in ActivityAmounts :
                 track_user_activity(a, t, x))
          => \A b \in Users \ {a} :
                /\ (b \in stored)' = (b \in stored)
                /\ positions'[b] = positions[b]
                /\ get_user_activity(b)' = get_user_activity(b)]_vars

RECURSIVE SumCollateral(_)
\* the sum of the collateral of the positions of the users in S
SumCollateral(S) ==
    IF S = {} THEN 0
    ELSE LET u == CHOOSE x \in S : TRUE
         IN  positions[u].collateral + SumCollateral(S \ {u})

\* C34: total_supplied equals the sum of the collateral of all stored
\* positions after any deposits, withdrawals and liquidations
C34_TotalSuppliedIsSum == ir_state.total_supplied = SumCollateral(stored)

\* C35: in every reachable state 0 <= total_borrowed <= total_supplied, so
\* the utilization rate never exceeds 1e8 (100%)
C35_UtilizationAtMostOne ==
    /\ 0 <= ir_state.total_borrowed
    /\ ir_state.total_borrowed <= ir_state.total_supplied
    /\ calculate_utilization(ir_state.total_borrowed,
                             ir_state.total_supplied) <= SCALE

\* the utilization and the two rates the stored totals give
consistent(state) ==
    LET utilization == calculate_utilization(state.total_borrowed,
                                             state.total_supplied)
        borrow_rate == calculate_borrow_rate(utilization, ir_config)
    IN  /\ state.utilization_rate = utilization
        /\ state.current_borrow_rate = borrow_rate
        /\ state.current_supply_rate =
               calculate_supply_rate(borrow_rate, utilization,
                                     ir_config.reserve_factor)

\* C36: after every successful deposit_collateral, borrow, repay, withdraw
\* or liquidate the stored InterestRateState is self-consistent: its
\* utilization_rate is total_borrowed * 1e8 / total_supplied (0 when
\* nothing is supplied) and its rates are those of the rate curve at that
\* utilization
C36_RateStateConsistent ==
    (/\ called \in {"deposit_collateral", "borrow", "repay", "withdraw",
                     "liquidate"}
     /\ result = "Ok")
    => consistent(ir_state)

\* the parameters the lending operations read from storage
parameters_in_use ==
    <<[ir_config EXCEPT !.last_update = 0],
      risk_config.close_factor, risk_config.liquidation_incentive,
      max_deviation, heartbeat, fallback_price, min_ratio>>

\* the same parameters as a configuration version gives them
parameters_of(config) ==
    <<[config.interest_config EXCEPT !.last_update = 0],
      config.risk_config.close_factor,
      config.risk_config.liquidation_incentive,
      config.oracle_config.max_deviation, config.oracle_config.heartbeat,
      config.oracle_config.fallback_price,
      config.protocol_params.min_collateral_ratio>>

\* C37: after create_configuration, update_configuration,
\* restore_config_backup or approve_config_proposal activated a
\* configuration, the stored RiskConfig, InterestRateConfig, oracle
\* settings and minimum collateral ratio the lending operations use equal
\* those of the active configuration
C37_ActiveConfigurationInUse ==
    (/\ called \in {"create_configuration", "update_configuration",
                     "restore_config_backup", "approve_config_proposal"}
     /\ result = "Ok")
    => parameters_in_use = parameters_of(current_config[1])

\* C38: while the reentrancy lock is held, no mutating lending operation,
\* withdraw and liquidate included, changes a position or a global total:
\* each such call is rejected
C38_LockExcludesEveryOperation ==
    [][\A u \in LockAddresses, a \in AmountsOrZero :
          (/\ reentrancy
           /\ \/ deposit_collateral(u, a)
              \/ borrow(u, a)
              \/ repay(u, a)
              \/ withdraw(u, a))
          => /\ result' # "Ok"
             /\ positions' = positions
             /\ stored' = stored
             /\ ir_state'.total_borrowed = ir_state.total_borrowed
             /\ ir_state'.total_supplied = ir_state.total_supplied
      ]_vars

\* C39: a create_configuration or update_configuration call that the
\* validation rejects with InvalidInput leaves the version counter as it
\* was, so the activated configurations are numbered 1, 2, 3, ... without
\* gaps
C39_RejectedCallKeepsCounter ==
    /\ [](\A i \in 1..Len(config_history) :
              config_history[i].version.version = i)
    /\ [][\A c \in Callers, i \in ConfigInputs :
              (create_configuration(c, i) \/ update_configuration(c, i))
              => (result' = "InvalidInput"
                    => version_counter' = version_counter)]_vars

\* C40: after any add_admin, remove_admin and transfer_admin calls, also a
\* transfer to an address that is an admin already or to the caller, no
\* address is in the admin set more than once, so an admin removed once is
\* no admin any more
C40_AdminSetHasNoDuplicates ==
    /\ [](\A i, j \in 1..Len(admins) : admins[i] = admins[j] => i = j)
    /\ [][\A a, b \in GovernanceAddresses :
              (remove_admin(a, b) /\ result' = "Ok") => ~is_admin(b)']_vars

====
